---- MODULE Spec2Model ----
(***************************************************************************)
(* Model of the candidate selection and scoring engine of                  *)
(* polygon-stock-tracker (src/src/scanner/scanner.py, src/src/core/        *)
(* scoring.py, src/src/adapters/polygon_adapter.py).                       *)
(*                                                                         *)
(* Units.  Time is seconds since midnight, New York.  Prices are cents.    *)
(* Volumes are thousands of shares.  Percentages are thousandths of a      *)
(* percent and scores thousandths of a point (fixed point for the floats   *)
(* of the source; the values the model draws divide exactly or are rounded *)
(* to the nearest unit).                                                   *)
(***************************************************************************)
EXTENDS Integers, Sequences, FiniteSets, TLC

VARIABLES
    cfg,                 \* the configuration read by load_config()
    now,                 \* the wall clock, seconds since midnight (New York)
    pc,                  \* where run() is: its three loops, or after them
    pick_made,           \* run()'s local flag
    today_pick,          \* the rows of output/today_pick.csv, in file order
    SNAPSHOT_HISTORY,    \* ticker -> sequence of <<timestamp, price, volume>>
    MARKET_OPEN_PRICES,  \* ticker -> price, NoneVal when the ticker is not a key
    ticks,               \* number of scan ticks run so far (bounds the exploration)
    faults,              \* number of faults injected so far (bounds the exploration)
    lastIter,            \* what the last loop iteration of run() did
    lastPass,            \* what the last call of run_open_selection_once did
    calls,               \* direct calls of the module's functions: their number,
                         \* the entries recorded since the last reset, the last
                         \* call and what it returned
    _DEFICIENCY_CACHE    \* ticker -> cached verdict, NoVerdict when not a key

vars == <<cfg, now, pc, pick_made, today_pick, SNAPSHOT_HISTORY,
          MARKET_OPEN_PRICES, ticks, faults, lastIter, lastPass, calls,
          _DEFICIENCY_CACHE>>

----------------------------------------------------------------------------
(* Bounds of the exploration *)

\* scan ticks (premarket ticks and monitoring iterations) explored in one run
MaxTicks == 3
\* provider, enrichment, scoring and write faults injected in one run
MaxFaults == 2
\* seconds the clock may advance between two reads inside one iteration
MaxSkew == 1
\* direct calls of the history functions explored in one sequence
MaxCalls == 7
\* entries of a history handed to has_heartbeat
MaxEntries == 3
\* daily bars that come before the most recent run of equal closes
MaxOlderBars == 3
\* most recent closes at or above 1.00 that follow a run of closes below it
MaxRecoveryBars == 11
\* calls of is_deficient_nasdaq in one process
MaxChecks == 2
\* rows of a batch handed to apply_liquidity_filters
MaxRows == 2
\* watchlist scans followed in a row
MaxScans == 2
\* tickers of a dict handed to score_snapshots
MaxSnaps == 3
\* ticks of a run followed from its start to the close
MaxDayTicks == 90
\* ticks of such a run on which the provider's answer is left open
MaxVariedTicks == 1

----------------------------------------------------------------------------
(* Values *)

\* Python's None (a missing field of a snapshot, a missing dict key)
NoneVal == -1000000000
\* the empty string written for a missing value of a CSV field
Blank == -1000000001

HM(h, m) == (h * 60 + m) * 60
Hour(t) == t \div 3600
Minute(t) == (t % 3600) \div 60

Max(a, b) == IF a >= b THEN a ELSE b
Min(a, b) == IF a <= b THEN a ELSE b

\* a / b rounded to the nearest integer, halves away from zero (b > 0)
RoundDiv(a, b) ==
    IF a >= 0 THEN (2 * a + b) \div (2 * b)
    ELSE 0 - ((2 * (0 - a) + b) \div (2 * b))

Tickers == {"AAA", "BBB", "CCC", "DDDDQ", "EEE", "GGG", "HHH"}

\* the characters of each symbol
Spelling ==
    [t \in Tickers |-> CASE t = "AAA" -> <<"A", "A", "A">>
                         [] t = "BBB" -> <<"B", "B", "B">>
                         [] t = "CCC" -> <<"C", "C", "C">>
                         [] t = "DDDDQ" -> <<"D", "D", "D", "D", "Q">>
                         [] t = "EEE" -> <<"E", "E", "E">>
                         [] t = "GGG" -> <<"G", "G", "G">>
                         [] t = "HHH" -> <<"H", "H", "H">>]

\* str.endswith
EndsWith(word, suffix) ==
    /\ Len(suffix) <= Len(word)
    /\ SubSeq(word, Len(word) - Len(suffix) + 1, Len(word)) = suffix

----------------------------------------------------------------------------
(* Snapshot history and market-open anchors *)

HistoryMaxLen == 5

\* deque(maxlen=5).append: the oldest entry is dropped when a 6th arrives
\* an append that never drops an entry
DequeAppendUnbounded(q, e) == Append(q, e)

DequeAppend(q, e) ==
    IF Len(q) >= HistoryMaxLen THEN Append(Tail(q), e) ELSE Append(q, e)

\* record_snapshot's timestamp: the caller's, or the clock when it passes None
TimestampOrNow(timestamp, t) == IF timestamp = NoneVal THEN t ELSE timestamp

record_snapshot(hist, ticker, price, volume, timestamp) ==
    [hist EXCEPT ![ticker] = DequeAppend(@, <<timestamp, price, volume>>)]

get_snapshot_history(hist, ticker) == hist[ticker]

clear_snapshot_history == [t \in Tickers |-> <<>>]

\* a recorder that replaces the anchor on every call
RecordMarketOpenPriceAlways(opens, ticker, price) == [opens EXCEPT ![ticker] = price]

record_market_open_price(opens, ticker, price) ==
    IF opens[ticker] = NoneVal THEN [opens EXCEPT ![ticker] = price] ELSE opens

get_market_open_price(opens, ticker) == opens[ticker]

is_market_open(t) == Hour(t) > 9 \/ (Hour(t) = 9 /\ Minute(t) >= 30)

----------------------------------------------------------------------------
(* Clock-driven schedules *)

\* a cadence under which the sleep lets no time pass
ScanCadenceOfStoppedClock(t) == 0

get_scan_cadence_minutes(t) ==
    IF Hour(t) < 9 THEN 30
    ELSE IF Hour(t) = 9 /\ Minute(t) < 15 THEN 15
    ELSE 5

get_heartbeat_window_minutes(t) ==
    IF Hour(t) < 9 \/ (Hour(t) = 9 /\ Minute(t) < 30) THEN 30
    ELSE IF Hour(t) < 12 THEN 5
    ELSE 30

----------------------------------------------------------------------------
(* Heartbeat detection *)

\* the entries of a history with timestamp >= cutoff, in order
EntriesSince(history, cutoff) == SelectSeq(history, LAMBDA s : s[1] >= cutoff)

RefLabel(window_minutes) ==
    IF window_minutes = 30 THEN "last_30min" ELSE "last_5min"

\* a detector that looks at the direction before it looks for a frozen price
HeartbeatOnDowntrendFirst(recent, market_open_price, window_minutes, t, min_pct, min_volume_growth) ==
    LET newest_price == recent[Len(recent)][2]
        use_open == is_market_open(t) /\ market_open_price # NoneVal
        reference_price == IF use_open THEN market_open_price ELSE recent[1][2]
        reference_label == IF use_open THEN "open_930" ELSE RefLabel(window_minutes)
        volume_growth == recent[Len(recent)][3] - recent[1][3]
        is_frozen == Cardinality({recent[i][2] : i \in 1..Len(recent)}) = 1
        negative == newest_price < reference_price
        too_small == (newest_price - reference_price) * 100000
                         < min_pct * reference_price
        Result(active, reason) ==
            [active |-> active, reason |-> reason, ref |-> reference_label,
             reference_price |-> reference_price]
    IN  IF reference_price <= 0 THEN Result(FALSE, "invalid_price")
        ELSE IF negative THEN Result(FALSE, "downtrending_vs")
        ELSE IF is_frozen THEN Result(FALSE, "price_frozen")
        ELSE IF too_small /\ volume_growth < min_volume_growth
            THEN Result(FALSE, "insufficient_movement_vs")
        ELSE Result(TRUE, "active_vs")

\* a detector for which volume growth makes up for a falling price
HeartbeatOnVolumeRescues(recent, market_open_price, window_minutes, t, min_pct, min_volume_growth) ==
    LET newest_price == recent[Len(recent)][2]
        use_open == is_market_open(t) /\ market_open_price # NoneVal
        reference_price == IF use_open THEN market_open_price ELSE recent[1][2]
        reference_label == IF use_open THEN "open_930" ELSE RefLabel(window_minutes)
        volume_growth == recent[Len(recent)][3] - recent[1][3]
        is_frozen == Cardinality({recent[i][2] : i \in 1..Len(recent)}) = 1
        negative == newest_price < reference_price
        too_small == (newest_price - reference_price) * 100000
                         < min_pct * reference_price
        Result(active, reason) ==
            [active |-> active, reason |-> reason, ref |-> reference_label,
             reference_price |-> reference_price]
    IN  IF reference_price <= 0 THEN Result(FALSE, "invalid_price")
        ELSE IF is_frozen THEN Result(FALSE, "price_frozen")
        ELSE IF negative /\ volume_growth < min_volume_growth
            THEN Result(FALSE, "downtrending_vs")
        ELSE IF too_small /\ volume_growth < min_volume_growth
            THEN Result(FALSE, "insufficient_movement_vs")
        ELSE Result(TRUE, "active_vs")

\* a detector that takes a fall for movement
HeartbeatOnAnyDirection(recent, market_open_price, window_minutes, t, min_pct, min_volume_growth) ==
    LET newest_price == recent[Len(recent)][2]
        use_open == is_market_open(t) /\ market_open_price # NoneVal
        reference_price == IF use_open THEN market_open_price ELSE recent[1][2]
        reference_label == IF use_open THEN "open_930" ELSE RefLabel(window_minutes)
        volume_growth == recent[Len(recent)][3] - recent[1][3]
        is_frozen == Cardinality({recent[i][2] : i \in 1..Len(recent)}) = 1
        negative == newest_price < reference_price
        too_small == (newest_price - reference_price) * 100000
                         < min_pct * reference_price
        Result(active, reason) ==
            [active |-> active, reason |-> reason, ref |-> reference_label,
             reference_price |-> reference_price]
    IN  IF reference_price <= 0 THEN Result(FALSE, "invalid_price")
        ELSE IF is_frozen THEN Result(FALSE, "price_frozen")
        ELSE IF too_small /\ volume_growth < min_volume_growth
            THEN Result(FALSE, "insufficient_movement_vs")
        ELSE Result(TRUE, "active_vs")

\* has_heartbeat once the window of entries is chosen (lines 209-250);
\* min_pct is min_price_change_pct in thousandths of a percent
\* a detector that measures against the anchor whenever there is one
HeartbeatOnAnchorAtAnyHour(recent, market_open_price, window_minutes, t, min_pct, min_volume_growth) ==
    LET newest_price == recent[Len(recent)][2]
        use_open == market_open_price # NoneVal
        reference_price == IF use_open THEN market_open_price ELSE recent[1][2]
        reference_label == IF use_open THEN "open_930" ELSE RefLabel(window_minutes)
        volume_growth == recent[Len(recent)][3] - recent[1][3]
        is_frozen == Cardinality({recent[i][2] : i \in 1..Len(recent)}) = 1
        negative == newest_price < reference_price
        too_small == (newest_price - reference_price) * 100000
                         < min_pct * reference_price
    IN  IF reference_price <= 0
            THEN [active |-> FALSE, reason |-> "invalid_price", ref |-> reference_label,
                  reference_price |-> reference_price]
        ELSE IF is_frozen
            THEN [active |-> FALSE, reason |-> "price_frozen", ref |-> reference_label,
                  reference_price |-> reference_price]
        ELSE IF negative
            THEN [active |-> FALSE, reason |-> "downtrending_vs", ref |-> reference_label,
                  reference_price |-> reference_price]
        ELSE IF too_small /\ volume_growth < min_volume_growth
            THEN [active |-> FALSE, reason |-> "insufficient_movement_vs",
                  ref |-> reference_label,
                  reference_price |-> reference_price]
        ELSE [active |-> TRUE, reason |-> "active_vs", ref |-> reference_label,
                  reference_price |-> reference_price]

HeartbeatOn(recent, market_open_price, window_minutes, t, min_pct, min_volume_growth) ==
    LET newest_price == recent[Len(recent)][2]
        use_open == is_market_open(t) /\ market_open_price # NoneVal
        reference_price == IF use_open THEN market_open_price ELSE recent[1][2]
        reference_label == IF use_open THEN "open_930" ELSE RefLabel(window_minutes)
        volume_growth == recent[Len(recent)][3] - recent[1][3]
        is_frozen == Cardinality({recent[i][2] : i \in 1..Len(recent)}) = 1
        \* price_change_pct < 0 and price_change_pct < min_price_change_pct,
        \* multiplied out so that no division rounds
        negative == newest_price < reference_price
        too_small == (newest_price - reference_price) * 100000
                         < min_pct * reference_price
    IN  IF reference_price <= 0
            THEN [active |-> FALSE, reason |-> "invalid_price", ref |-> reference_label,
                  reference_price |-> reference_price]
        ELSE IF is_frozen
            THEN [active |-> FALSE, reason |-> "price_frozen", ref |-> reference_label,
                  reference_price |-> reference_price]
        ELSE IF negative
            THEN [active |-> FALSE, reason |-> "downtrending_vs", ref |-> reference_label,
                  reference_price |-> reference_price]
        ELSE IF too_small /\ volume_growth < min_volume_growth
            THEN [active |-> FALSE, reason |-> "insufficient_movement_vs",
                  ref |-> reference_label,
                  reference_price |-> reference_price]
        ELSE [active |-> TRUE, reason |-> "active_vs", ref |-> reference_label,
                  reference_price |-> reference_price]

\* has_heartbeat(ticker, min_price_change_pct, min_volume_growth) read at time t
\* a detector that never falls back to the last two entries
HasHeartbeatWithoutFallback(hist, opens, ticker, t, min_price_change_pct, min_volume_growth) ==
    LET history == get_snapshot_history(hist, ticker)
        window_minutes == get_heartbeat_window_minutes(t)
        recent == EntriesSince(history, t - window_minutes * 60)
    IN  IF Len(history) < 2
            THEN [active |-> TRUE, reason |-> "first_scan_pass", ref |-> "none",
                  reference_price |-> NoneVal]
        ELSE IF Len(recent) < 2
            THEN [active |-> FALSE, reason |-> "no_data_in",
                  ref |-> RefLabel(window_minutes), reference_price |-> NoneVal]
        ELSE HeartbeatOn(recent, get_market_open_price(opens, ticker),
                         window_minutes, t, min_price_change_pct, min_volume_growth)

has_heartbeat(hist, opens, ticker, t, min_price_change_pct, min_volume_growth) ==
    LET history == get_snapshot_history(hist, ticker)
        window_minutes == get_heartbeat_window_minutes(t)
        cutoff_time == t - window_minutes * 60
        recent == EntriesSince(history, cutoff_time)
    IN  IF Len(history) < 2
            THEN [active |-> TRUE, reason |-> "first_scan_pass", ref |-> "none",
                  reference_price |-> NoneVal]
        ELSE IF Len(recent) < 2
            THEN IF window_minutes <= 5 /\ Len(history) >= 2
                    THEN HeartbeatOn(SubSeq(history, Len(history) - 1, Len(history)),
                                     get_market_open_price(opens, ticker),
                                     window_minutes, t,
                                     min_price_change_pct, min_volume_growth)
                    ELSE [active |-> FALSE, reason |-> "no_data_in",
                          ref |-> RefLabel(window_minutes),
                          reference_price |-> NoneVal]
        ELSE HeartbeatOn(recent, get_market_open_price(opens, ticker),
                         window_minutes, t, min_price_change_pct, min_volume_growth)

----------------------------------------------------------------------------
(* Composite scoring *)

\* decay factor in thousandths: 1.0 before 09:30, minus 0.1 per hour after it,
\* floored at 0.4
calculate_gap_decay_factor(t) ==
    IF t < HM(9, 30) THEN 1000
    ELSE Max(400, 1000 - (t - HM(9, 30)) \div 36)

\* percent price change over the last window_minutes, thousandths of a percent
calculate_intraday_delta(hist, ticker, t, window_minutes) ==
    LET history == get_snapshot_history(hist, ticker)
        recent == EntriesSince(history, t - window_minutes * 60)
    IN  IF Len(history) < 2 THEN 0
        ELSE IF Len(recent) < 2 THEN 0
        ELSE IF recent[1][2] <= 0 THEN 0
        ELSE RoundDiv((recent[Len(recent)][2] - recent[1][2]) * 100000, recent[1][2])

\* shares per minute over the last window_minutes
calculate_volume_rate(hist, ticker, t, window_minutes) ==
    LET history == get_snapshot_history(hist, ticker)
        recent == EntriesSince(history, t - window_minutes * 60)
        volume_delta == recent[Len(recent)][3] - recent[1][3]
        elapsed == recent[Len(recent)][1] - recent[1][1]
    IN  IF Len(history) < 2 THEN 0
        ELSE IF Len(recent) < 2 THEN 0
        ELSE IF volume_delta <= 0 THEN 0
        ELSE IF elapsed <= 0 THEN 0
        ELSE RoundDiv(volume_delta * 60000, elapsed)

\* min(log10(max(volume_millions, 0.1)) * 5, 15) in thousandths of a point,
\* volume in thousands of shares: to the nearest thousandth for the volumes
\* the provider reports here, the middle of the decade for any other
AbsVolScore(volume) ==
    IF volume <= 0 THEN 0
    ELSE IF volume <= 100 THEN 0 - 5000
    ELSE IF volume >= 1000000 THEN 15000
    ELSE CASE volume = 500 -> 0 - 1505
           [] volume = 600 -> 0 - 1109
           [] volume = 700 -> 0 - 775
           [] volume = 1000 -> 0
           [] volume = 2000 -> 1505
           [] volume = 2100 -> 1611
           [] volume = 10000 -> 5000
           [] OTHER -> IF volume < 1000 THEN 0 - 2500
                       ELSE IF volume < 10000 THEN 2500
                       ELSE IF volume < 100000 THEN 7500
                       ELSE 12500

\* a composite without the intraday delta component
CompositeScoreWithoutDelta(hist, opens, ticker, t, gap_pct, current_price, current_volume) ==
    LET decay_factor == calculate_gap_decay_factor(t)
        gap_score == RoundDiv(gap_pct * decay_factor, 5000)
        rate_score == RoundDiv(calculate_volume_rate(hist, ticker, t, 30) * 15, 100)
        abs_vol_score == AbsVolScore(current_volume)
        has_pulse == has_heartbeat(hist, opens, ticker, t, 500, 1).active
        velocity_bonus == IF has_pulse THEN 20000 ELSE 0
    IN  gap_score + rate_score + abs_vol_score + velocity_bonus

calculate_composite_score(hist, opens, ticker, t, gap_pct, current_price, current_volume) ==
    LET decay_factor == calculate_gap_decay_factor(t)
        gap_score == RoundDiv(gap_pct * decay_factor, 5000)
        delta_score == RoundDiv(calculate_intraday_delta(hist, ticker, t, 30) * 3, 10)
        rate_score == RoundDiv(calculate_volume_rate(hist, ticker, t, 30) * 15, 100)
        abs_vol_score == AbsVolScore(current_volume)
        has_pulse == has_heartbeat(hist, opens, ticker, t, 500, 1).active
        velocity_bonus == IF has_pulse THEN 20000 ELSE 0
    IN  gap_score + delta_score + rate_score + abs_vol_score + velocity_bonus

----------------------------------------------------------------------------
(* Sequences *)

\* sorted(seq, key=..., reverse=True), keys[i] the key of seq[i]: descending,
\* equal keys keep their order
StableSortDesc(seq, keys) ==
    LET InsertDesc(sorted, i) ==
            LET ahead == Cardinality({k \in 1..Len(sorted) : keys[sorted[k]] >= keys[i]})
            IN  SubSeq(sorted, 1, ahead) \o <<i>> \o SubSeq(sorted, ahead + 1, Len(sorted))
        f[i \in 0..Len(seq)] == IF i = 0 THEN <<>> ELSE InsertDesc(f[i - 1], i)
    IN  [k \in 1..Len(seq) |-> seq[f[Len(seq)][k]]]

\* index of max(seq, key=...): the first element no other element is above;
\* above[j][i] is key(seq[j]) > key(seq[i])
ArgMaxFirst(seq, above) ==
    CHOOSE i \in 1..Len(seq) :
        /\ \A j \in 1..Len(seq) : ~above[j][i]
        /\ \A j \in 1..(i - 1) : above[i][j]

Take(seq, n) == SubSeq(seq, 1, Min(n, Len(seq)))

----------------------------------------------------------------------------
(* The market data provider *)

Snap(tk, last, prev, vol) ==
    [ticker |-> tk, last_price |-> last, close |-> NoneVal,
     prev_close |-> prev, volume |-> vol]

\* the batches fetch_snapshots may return, in the provider's ticker order
Batches ==
    << << Snap("AAA", 1200, 1000, 2000), Snap("BBB", 1900, 2000, 500),
          Snap("CCC", 105, 150, 50) >>,
       << Snap("AAA", 1150, 1000, 2100), Snap("BBB", 2100, 2000, 600),
          Snap("CCC", 240, 150, 600) >>,
       << Snap("AAA", NoneVal, 1000, 0), Snap("BBB", 1800, 2000, 700),
          Snap("CCC", 105, 150, 50) >> >>

\* n copies of v
Rep(n, v) == [i \in 1..n |-> v]

\* what the per-ticker calls of the adapter return: previous close, premarket
\* high, ATR(14), 20-session average volume, and the daily closes of the
\* lookback, oldest first
RefData ==
    [t \in Tickers |->
        CASE t = "AAA" -> [prev_close |-> 1000, premarket_high |-> 1180,
                           atr_14 |-> 50, avg_daily_volume |-> 3500,
                           closes |-> Rep(31, 1000)]
          [] t = "BBB" -> [prev_close |-> 2000, premarket_high |-> 2050,
                           atr_14 |-> 100, avg_daily_volume |-> 750,
                           closes |-> Rep(12, 2000)]
          [] t = "CCC" -> [prev_close |-> 150, premarket_high |-> 110,
                           atr_14 |-> 10, avg_daily_volume |-> 750,
                           closes |-> Rep(35, 80) \o <<150>>]
          [] t = "DDDDQ" -> [prev_close |-> 200, premarket_high |-> 310,
                             atr_14 |-> 20, avg_daily_volume |-> 3500,
                             closes |-> Rep(31, 200)]
          [] t = "EEE" -> [prev_close |-> 500, premarket_high |-> 560,
                           atr_14 |-> 30, avg_daily_volume |-> 900,
                           closes |-> Rep(31, 500)]
          [] t = "GGG" -> [prev_close |-> 800, premarket_high |-> 900,
                           atr_14 |-> 40, avg_daily_volume |-> 900,
                           closes |-> Rep(31, 800)]
          [] t = "HHH" -> [prev_close |-> 300, premarket_high |-> 340,
                           atr_14 |-> 20, avg_daily_volume |-> 900,
                           closes |-> Rep(31, 300)]]

Verdict(d, reason, n) == [is_deficient |-> d, reason |-> reason, days |-> n]

\* is_deficient_nasdaq on the daily closes of the lookback (oldest first):
\* the walk from the most recent close to the oldest, st = the three locals
DeficiencyWalk(closes, grace_period_days) ==
    LET n == Len(closes)
        Start == [below |-> 0, above |-> 0, was |-> FALSE, done |-> FALSE,
                  out |-> Verdict(FALSE, "compliant", 0)]
        Step(st, close) ==
            IF st.done THEN st
            ELSE IF close < 100
                THEN IF st.below + 1 >= 30
                        THEN [st EXCEPT !.done = TRUE,
                                 !.out = Verdict(TRUE, "deficient_d_below_$1", st.below + 1)]
                        ELSE [st EXCEPT !.below = st.below + 1, !.above = 0]
            ELSE LET was == st.was \/ st.below >= 30
                     above == st.above + 1
                 IN  IF was
                        THEN IF above < grace_period_days
                                THEN [st EXCEPT !.done = TRUE,
                                         !.out = Verdict(TRUE, "grace_period", above)]
                                ELSE [st EXCEPT !.done = TRUE,
                                         !.out = Verdict(FALSE, "compliant_post_grace", 0)]
                        ELSE [st EXCEPT !.was = was, !.above = above, !.below = 0]
        \* the state after i closes; the previous state is bound as a value
        f[i \in 0..n] ==
            IF i = 0 THEN Start
            ELSE CHOOSE next \in {Step(st, closes[n + 1 - i]) : st \in {f[i - 1]}} : TRUE
    IN  f[n].out

\* a check that answers deficient when it cannot fetch
IsDeficientFailsClosed(closes, fetch_ok, grace_period_days) ==
    IF ~fetch_ok THEN Verdict(TRUE, "check_error", 0)
    ELSE IF Len(closes) < 30 THEN Verdict(FALSE, "insufficient_history", 0)
    ELSE DeficiencyWalk(closes, grace_period_days)

\* a check that wants more than 30 bars before it walks them
IsDeficientWantsMoreHistory(closes, fetch_ok, grace_period_days) ==
    IF ~fetch_ok THEN Verdict(FALSE, "check_error", 0)
    ELSE IF Len(closes) <= 30 THEN Verdict(FALSE, "insufficient_history", 0)
    ELSE DeficiencyWalk(closes, grace_period_days)

is_deficient_nasdaq(closes, fetch_ok, grace_period_days) ==
    IF ~fetch_ok THEN Verdict(FALSE, "check_error", 0)
    ELSE IF Len(closes) < 30 THEN Verdict(FALSE, "insufficient_history", 0)
    ELSE DeficiencyWalk(closes, grace_period_days)

\* _DEFICIENCY_CACHE = {}
NoVerdict == Verdict(FALSE, "not_cached", 0)

NoCache == [tk \in Tickers |-> NoVerdict]

\* a call that fetches and walks the bars every time
IsDeficientNeverCached(cache, ticker, closes, fetch_ok, grace_period_days) ==
    [result |-> is_deficient_nasdaq(closes, fetch_ok, grace_period_days),
     fetched |-> TRUE,
     cache |-> [cache EXCEPT ![ticker] =
                   is_deficient_nasdaq(closes, fetch_ok, grace_period_days)]]

\* is_deficient_nasdaq(ticker) with its cache: the verdict, whether the bars
\* were requested, and the cache after the call
is_deficient_nasdaq_cached(cache, ticker, closes, fetch_ok, grace_period_days) ==
    IF cache[ticker] # NoVerdict
        THEN [result |-> cache[ticker], fetched |-> FALSE, cache |-> cache]
    ELSE [result |-> is_deficient_nasdaq(closes, fetch_ok, grace_period_days),
          fetched |-> TRUE,
          cache |-> [cache EXCEPT ![ticker] =
                        is_deficient_nasdaq(closes, fetch_ok, grace_period_days)]]

\* the tickers the price-deficiency check marks deficient
Deficient ==
    {t \in Tickers : is_deficient_nasdaq(RefData[t].closes, TRUE, 10).is_deficient}

----------------------------------------------------------------------------
(* Configuration *)

Thresholds(rp, mp, ms, ma, md) ==
    [require_prices |-> rp, min_price |-> mp, min_intraday_shares |-> ms,
     min_avg_daily_volume |-> ma, min_dollar_volume |-> md]

\* cfg["liquidity"] with its two session blocks
Liquidity ==
    [premarket |-> Thresholds(TRUE, 100, 10, 100, 1000),
     regular   |-> Thresholds(TRUE, 25, 100, 500, 50000)]

\* a configuration file with no "liquidity" key: cfg.get("liquidity", {})
NoLiquidity == [session \in {} |-> Thresholds(TRUE, 0, 0, 0, 0)]

\* dict.get(key, default)
DictGet(d, key, default) == IF key \in DOMAIN d THEN d[key] ELSE default

\* cfg["open_selection"]["selection_window"]: absent, or "HH:MM-HH:MM"
NoWindow == [set |-> FALSE, start |-> 0, end |-> 0]
Window(a, b) == [set |-> TRUE, start |-> a, end |-> b]

Configs ==
    [debug : BOOLEAN,
     selection_window : {NoWindow, Window(HM(9, 30), HM(9, 35))},
     candidate_pool_size : {100},
     premarket : {[start_time |-> HM(4, 0), end_time |-> HM(9, 30)]},
     liquidity : {Liquidity},
     group_watchlist : {{"AAA"}}]
    \cup
    [debug : {FALSE},
     selection_window : {NoWindow},
     candidate_pool_size : {100},
     premarket : {[start_time |-> HM(4, 0), end_time |-> HM(9, 30)]},
     liquidity : {NoLiquidity},
     group_watchlist : {{"AAA"}}]

----------------------------------------------------------------------------
(* Time windows *)

within_premarket_window(c, t) ==
    LET cap0930 == HM(9, 30)
        effective_end == IF c.premarket.end_time > cap0930
                            THEN c.premarket.end_time ELSE cap0930
    IN  c.premarket.start_time <= t /\ t <= effective_end

\* the window within_open_selection_window reads: default "09:30-09:35"
OpenSelectionWindow(c) ==
    IF c.selection_window.set THEN c.selection_window
    ELSE Window(HM(9, 30), HM(9, 35))

within_open_selection_window(c, t) ==
    OpenSelectionWindow(c).start <= t /\ t <= OpenSelectionWindow(c).end

\* the window run() reads for itself: default "09:50-09:55"
RunSelectionWindow(c) ==
    IF c.selection_window.set THEN c.selection_window
    ELSE Window(HM(9, 50), HM(9, 55))

----------------------------------------------------------------------------
(* Prefilter, enrichment, liquidity gate *)

\* (price - prev) / prev * 100 in thousandths of a percent
GapPct(price, prev) == RoundDiv((price - prev) * 100000, prev)

\* the endings prefilter_top_gappers excludes
excluded_endings ==
    { <<"F">>, <<"W">>, <<"Y">>, <<"U">>, <<"P", "S">>, <<"A", "S">>,
      <<"W", "S">>, <<"R", "S">> }

\* any(ticker.endswith(suffix) for suffix in excluded_endings)
HasExcludedEnding(tk) ==
    \E suffix \in excluded_endings : EndsWith(Spelling[tk], suffix)

\* prefilter_top_gappers(snaps, n, min_price): rows with the snapshot's gap
PrefilterRow(s) ==
    LET price == IF s.last_price # NoneVal THEN s.last_price ELSE s.close
    IN  [snap |-> s, price |-> price,
         ok |-> ~(price = NoneVal \/ s.prev_close = NoneVal \/ s.prev_close <= 0),
         gap |-> IF price = NoneVal \/ s.prev_close = NoneVal \/ s.prev_close <= 0
                    THEN 0 ELSE GapPct(price, s.prev_close)]

prefilter_top_gappers(snaps, n, min_price) ==
    LET rows == [i \in 1..Len(snaps) |-> PrefilterRow(snaps[i])]
        pool == SelectSeq(rows, LAMBDA r : /\ ~HasExcludedEnding(r.snap.ticker)
                                           /\ r.ok
                                           /\ r.price >= min_price)
        sorted == StableSortDesc(pool, [i \in 1..Len(pool) |-> pool[i].gap])
    IN  Take([i \in 1..Len(sorted) |-> sorted[i].snap], n)

\* one row of enrich_rows
EnrichRow(s, t) ==
    LET ref == RefData[s.ticker]
        prev_close == ref.prev_close
        last_price == IF s.last_price # NoneVal /\ s.last_price # 0 THEN s.last_price
                      ELSE IF prev_close # 0 THEN prev_close ELSE 0
        open_price == last_price
        \* get_intraday_volume: the provider's day volume, as in its snapshot
        intraday_vol == IF s.volume = NoneVal THEN 0 ELSE s.volume
        avg_vol == ref.avg_daily_volume
    IN  [date |-> "today", time |-> t \div 60, ticker |-> s.ticker,
         premarket_high |-> ref.premarket_high,
         open_price |-> open_price, last_price |-> last_price,
         intraday_volume |-> intraday_vol, avg_daily_volume |-> avg_vol,
         prev_close |-> prev_close,
         \* round(gap_pct, 2), in thousandths of a percent
         gap_pct |-> IF prev_close # 0
                        THEN 10 * RoundDiv((open_price - prev_close) * 10000, prev_close)
                        ELSE Blank,
         \* round(rvol, 2), in hundredths
         rvol |-> IF avg_vol # 0 THEN RoundDiv(intraday_vol * 100, avg_vol) ELSE Blank,
         atr_14 |-> IF ref.atr_14 # 0 THEN ref.atr_14 ELSE Blank,
         \* round(atr_stretch, 2), in hundredths
         atr_stretch |-> IF ref.atr_14 # 0
                            THEN RoundDiv((last_price - prev_close) * 100, ref.atr_14)
                            ELSE Blank]

enrich_rows(snapshots, t) == [i \in 1..Len(snapshots) |-> EnrichRow(snapshots[i], t)]

_dollar_volume(row) == row.last_price * row.intraday_volume

\* a selection that reads the regular block whatever the hour
GetLiquidityCfgRegularOnly(c, t) ==
    LET liq_root == c.liquidity
    IN  IF "regular" \in DOMAIN liq_root THEN liq_root["regular"] ELSE liq_root

get_liquidity_cfg(c, t) ==
    LET session == IF Hour(t) < 9 \/ (Hour(t) = 9 /\ Minute(t) < 30)
                      THEN "premarket" ELSE "regular"
        liq_root == c.liquidity
    IN  IF session \in DOMAIN liq_root THEN liq_root[session] ELSE liq_root

\* the reason apply_liquidity_filters drops a row for, "pass" when it keeps it
LiquidityVerdict(r, liq_cfg) ==
    IF DictGet(liq_cfg, "require_prices", TRUE) /\ (r.last_price = 0 \/ r.prev_close = 0)
        THEN "missing_prices"
    ELSE IF r.last_price < DictGet(liq_cfg, "min_price", 0) THEN "price_floor"
    ELSE IF r.intraday_volume < DictGet(liq_cfg, "min_intraday_shares", 0) THEN "shares"
    ELSE IF r.avg_daily_volume < DictGet(liq_cfg, "min_avg_daily_volume", 0) THEN "avg"
    ELSE IF _dollar_volume(r) < DictGet(liq_cfg, "min_dollar_volume", 0) THEN "dollar"
    ELSE "pass"

apply_liquidity_filters(rows, c, t) ==
    SelectSeq(rows, LAMBDA r : LiquidityVerdict(r, get_liquidity_cfg(c, t)) = "pass")

----------------------------------------------------------------------------
(* Group watchlist logging: its one effect on state is the open anchor *)

log_group_watchlist(c, snaps, opens, t) ==
    LET Step(o, s) ==
            LET price == IF s.last_price # NoneVal /\ s.last_price # 0
                            THEN s.last_price ELSE s.close
            IN  IF s.ticker \in c.group_watchlist
                   /\ price # NoneVal /\ price # 0 /\ is_market_open(t)
                    THEN record_market_open_price(o, s.ticker, price)
                    ELSE o
        f[i \in 0..Len(snaps)] == IF i = 0 THEN opens ELSE Step(f[i - 1], snaps[i])
    IN  f[Len(snaps)]

----------------------------------------------------------------------------
(* Scoring of the selection pass (src/core/scoring.py) *)

\* a gap without its sign
ComputeGapPctUnsigned(prev_close, ref_price) ==
    IF prev_close <= 0 THEN 0
    ELSE IF ref_price >= prev_close THEN GapPct(ref_price, prev_close)
    ELSE 0 - GapPct(ref_price, prev_close)

compute_gap_pct(prev_close, ref_price) ==
    IF prev_close <= 0 THEN 0 ELSE GapPct(ref_price, prev_close)

\* "x or 0" on a price: None and 0 become 0
OrZero(v) == IF v = NoneVal THEN 0 ELSE v

\* the rows of score_snapshots left in the order of the dict
ScoreSnapshotsUnsorted(filtered) ==
    [i \in 1..Len(filtered) |->
        [ticker |-> filtered[i].ticker,
         last_price |-> filtered[i].last_price,
         prev_close |-> filtered[i].prev_close,
         gap_pct |-> compute_gap_pct(OrZero(filtered[i].prev_close),
                                     OrZero(filtered[i].last_price)),
         volume |-> 0,
         score |-> NoneVal]]

\* score_snapshots: one row per ticker, sorted by gap percent, descending;
\* the rows carry no "score" key
score_snapshots(filtered) ==
    LET rows == [i \in 1..Len(filtered) |->
                    [ticker |-> filtered[i].ticker,
                     last_price |-> filtered[i].last_price,
                     prev_close |-> filtered[i].prev_close,
                     gap_pct |-> compute_gap_pct(OrZero(filtered[i].prev_close),
                                                 OrZero(filtered[i].last_price)),
                     volume |-> 0,
                     score |-> NoneVal]]
    IN  StableSortDesc(rows, [i \in 1..Len(rows) |-> rows[i].gap_pct])

\* r.get("score", float("-inf")): a missing score is below every number
ScoreAbove(a, b) ==
    /\ a.score # NoneVal
    /\ (b.score = NoneVal \/ a.score > b.score)

\* _pick_winner: max(scored, key=score), the first of the maximal rows
_pick_winner(scored) ==
    scored[ArgMaxFirst(scored, [j \in 1..Len(scored) |-> [i \in 1..Len(scored) |->
                                    ScoreAbove(scored[j], scored[i])]])]

\* a fallback key that ranks by gap percent first
FallbackKeyGapFirst(r) ==
    << IF r.gap_pct = Blank THEN 0 ELSE r.gap_pct,
       IF r.rvol = Blank THEN 0 ELSE r.rvol,
       r.last_price * r.intraday_volume >>

\* the fallback key (RVOL, dollar volume, gap percent), blanks read as 0
FallbackKey(r) ==
    << IF r.rvol = Blank THEN 0 ELSE r.rvol,
       r.last_price * r.intraday_volume,
       IF r.gap_pct = Blank THEN 0 ELSE r.gap_pct >>

\* tuple comparison of Python: a > b
LexAbove(a, b) ==
    \/ a[1] > b[1]
    \/ a[1] = b[1] /\ a[2] > b[2]
    \/ a[1] = b[1] /\ a[2] = b[2] /\ a[3] > b[3]

FallbackAbove(a, b) == LexAbove(FallbackKey(a), FallbackKey(b))

\* the fallback winner: max(filtered, key=FallbackKey)
FallbackWinner(filtered) ==
    filtered[ArgMaxFirst(filtered, [j \in 1..Len(filtered) |-> [i \in 1..Len(filtered) |->
                                      FallbackAbove(filtered[j], filtered[i])]])]

----------------------------------------------------------------------------
(* The final-pick row *)

\* the keys _final_pick_row reads from a scored row (score_snapshots output):
\* only ticker and gap_pct are there
BaseOfScored(r) ==
    [date |-> "", time |-> NoneVal, ticker |-> r.ticker, gap_pct |-> r.gap_pct,
     rvol |-> Blank, atr_stretch |-> Blank, premarket_high |-> Blank,
     open_price |-> Blank, score |-> IF r.score = NoneVal THEN Blank ELSE r.score]

\* the keys _final_pick_row reads from an enriched row: no "score" key
BaseOfEnriched(r) ==
    [date |-> r.date, time |-> r.time, ticker |-> r.ticker, gap_pct |-> r.gap_pct,
     rvol |-> r.rvol, atr_stretch |-> r.atr_stretch,
     premarket_high |-> r.premarket_high, open_price |-> r.open_price,
     score |-> Blank]

RationaleAtOpen == "Pick of the Day at open"

\* a row builder that drops the final flag
FinalPickRowNeverFinal(base, score, final, rationale, t) ==
    [date |-> base.date,
     time |-> IF base.time = NoneVal THEN t \div 60 ELSE base.time,
     ticker |-> base.ticker, gap_pct |-> base.gap_pct, rvol |-> base.rvol,
     atr_stretch |-> base.atr_stretch, premarket_high |-> base.premarket_high,
     open_price |-> base.open_price, score |-> score,
     final_pick |-> "FALSE",
     rationale |-> rationale]

_final_pick_row(base, score, final, rationale, t) ==
    [date |-> base.date,
     time |-> IF base.time = NoneVal THEN t \div 60 ELSE base.time,
     ticker |-> base.ticker, gap_pct |-> base.gap_pct, rvol |-> base.rvol,
     atr_stretch |-> base.atr_stretch, premarket_high |-> base.premarket_high,
     open_price |-> base.open_price, score |-> score,
     final_pick |-> IF final THEN "TRUE" ELSE "FALSE",
     rationale |-> rationale]

----------------------------------------------------------------------------
(* The selection pass *)

NoRow == [date |-> "", time |-> NoneVal, ticker |-> "none", gap_pct |-> Blank,
          rvol |-> Blank, atr_stretch |-> Blank, premarket_high |-> Blank,
          open_price |-> Blank, score |-> Blank, final_pick |-> "FALSE",
          rationale |-> ""]

\* what the environment does to one pass: the batch the provider returns
\* (0: fetch_snapshots raises) and the steps that raise
PassInputs ==
    [batch : 0..Len(Batches), raises : SUBSET {"enrich", "scoring", "write"}]

NoInput == [batch |-> 0, raises |-> {}]

FaultsOf(e) == Cardinality(e.raises) + (IF e.batch = 0 THEN 1 ELSE 0)

\* the steps a pass with this outcome executed: a step that is not executed
\* cannot raise, and a pass that returns before the fetch fetches nothing
Executed(outcome, e) ==
    CASE outcome = "window_not_active" -> e.batch = 1 /\ e.raises = {}
      [] outcome \in {"fetch_raised", "no_candidates", "no_survivors"} -> e.raises = {}
      [] outcome = "enrich_failed" -> e.raises = {"enrich"}
      [] OTHER -> TRUE

PassResult(outcome, raised, path, winner, wrote, row, opens, filtered, hist, t) ==
    [outcome |-> outcome, raised |-> raised, path |-> path, winner |-> winner,
     wrote |-> wrote, row |-> row, opens |-> opens, at |-> t,
     \* filled in by run(): the branch that called the pass, and its inputs
     branch |-> "none", input |-> NoInput,
     survivors |-> {filtered[i].ticker : i \in 1..Len(filtered)},
     rows |-> filtered,
     \* the scorer and the heartbeat detector on the survivors, as they are
     \* when the pass picks
     composite |-> [tk \in Tickers |->
                      IF \E i \in 1..Len(filtered) : filtered[i].ticker = tk
                        THEN LET r == filtered[CHOOSE i \in 1..Len(filtered) :
                                                   filtered[i].ticker = tk]
                             IN  calculate_composite_score(hist, opens, tk, t,
                                     IF r.gap_pct = Blank THEN 0 ELSE r.gap_pct,
                                     r.last_price, r.intraday_volume)
                        ELSE 0],
     heartbeat |-> [tk \in Tickers |-> has_heartbeat(hist, opens, tk, t, 500, 1)]]

NoPass == PassResult("not_called", FALSE, "none", "none", FALSE, NoRow,
                     [t \in Tickers |-> NoneVal], <<>>, clear_snapshot_history, 0)

\* a pass that returns before it has a winner
Returned(outcome, opens, hist, t) ==
    PassResult(outcome, outcome = "fetch_raised", "none", "none", FALSE,
               NoRow, opens, <<>>, hist, t)

\* the persist step of the pass (scanner.py 1248-1263)
Persist(winner, path, filtered, opens, hist, t, e) ==
    PassResult(IF "write" \in e.raises THEN "write_failed" ELSE "picked",
               FALSE, path, winner.ticker, "write" \notin e.raises,
               _final_pick_row(winner, winner.score, TRUE, RationaleAtOpen, t),
               opens, filtered, hist, t)

\* the scoring step with its fallback (scanner.py 1193-1246)
ScoreOrFallback(filtered, scored, opens, hist, t, e) ==
    IF "scoring" \in e.raises \/ Len(scored) = 0
        THEN Persist(BaseOfEnriched(FallbackWinner(filtered)), "fallback",
                     filtered, opens, hist, t, e)
        ELSE Persist(BaseOfScored(_pick_winner(scored)), "scored",
                     filtered, opens, hist, t, e)

\* the liquidity gate of the pass (scanner.py 1174-1184)
GateAndScore(c, filtered, opens, hist, t, e) ==
    IF Len(filtered) = 0 THEN Returned("no_survivors", opens, hist, t)
    ELSE ScoreOrFallback(filtered, score_snapshots(filtered), opens, hist, t, e)

\* the candidate pool and its enrichment (scanner.py 1156-1172)
EnrichAndGate(c, candidates, opens, hist, t, e) ==
    IF Len(candidates) = 0 THEN Returned("no_candidates", opens, hist, t)
    ELSE IF "enrich" \in e.raises THEN Returned("enrich_failed", opens, hist, t)
    ELSE GateAndScore(c, apply_liquidity_filters(enrich_rows(candidates, t), c, t),
                      opens, hist, t, e)

\* run_open_selection_once(cfg, logger, force) with the clock at t, when
\* fetch_snapshots raises (e.batch = 0) or returns snaps
RunOpenSelectionOn(c, snaps, hist, opens, t, force, e) ==
    IF ~force /\ ~within_open_selection_window(c, t)
        THEN Returned("window_not_active", opens, hist, t)
    ELSE IF e.batch = 0
        THEN Returned("fetch_raised", opens, hist, t)
    ELSE EnrichAndGate(c, prefilter_top_gappers(snaps, c.candidate_pool_size, 25),
                       log_group_watchlist(c, snaps, opens, t),
                       hist, t, e)

\* run_open_selection_once(cfg, logger, force) with the clock at t, the
\* provider answering with one of Batches
run_open_selection_once(c, hist, opens, t, force, e) ==
    RunOpenSelectionOn(c, IF e.batch = 0 THEN <<>> ELSE Batches[e.batch],
                       hist, opens, t, force, e)

----------------------------------------------------------------------------
(* Scan ticks *)

\* is_ticker_tradeable_fast: FALSE on WS, on .W, and on W, U, Z, Q or E that
\* closes a symbol of five or more characters after a letter
is_ticker_tradeable_fast(tk) ==
    LET ticker_upper == Spelling[tk]
        n == Len(ticker_upper)
    IN  /\ ~EndsWith(ticker_upper, <<"W", "S">>)
        /\ ~EndsWith(ticker_upper, <<".", "W">>)
        /\ ~(/\ n >= 5
              /\ ticker_upper[n] \in {"W", "U", "Z", "Q", "E"}
              /\ ticker_upper[n - 1] # ".")

\* a watchlist that does not ask for a heartbeat
Top5WithoutHeartbeat(rows, hist, opens, t) ==
    LET live == SelectSeq(rows, LAMBDA r : is_ticker_tradeable_fast(r.ticker))
        scored == [i \in 1..Len(live) |->
                      [ticker |-> live[i].ticker,
                       score |-> calculate_composite_score(hist, opens,
                                     live[i].ticker, t, live[i].gap,
                                     live[i].price, live[i].volume),
                       heartbeat |-> has_heartbeat(hist, opens, live[i].ticker,
                                                   t, 500, 1).reason]]
    IN  Take(StableSortDesc(scored, [i \in 1..Len(scored) |-> scored[i].score]), 5)

\* the watchlist entries of one tick: rows that are tradeable and have a
\* heartbeat, scored, sorted by score, the first five
Top5(rows, hist, opens, t) ==
    LET live == SelectSeq(rows, LAMBDA r :
                    /\ is_ticker_tradeable_fast(r.ticker)
                    /\ has_heartbeat(hist, opens, r.ticker, t, 500, 1).active)
        scored == [i \in 1..Len(live) |->
                      [ticker |-> live[i].ticker,
                       score |-> calculate_composite_score(hist, opens,
                                     live[i].ticker, t, live[i].gap,
                                     live[i].price, live[i].volume),
                       heartbeat |-> has_heartbeat(hist, opens, live[i].ticker,
                                                   t, 500, 1).reason]]
    IN  Take(StableSortDesc(scored, [i \in 1..Len(scored) |-> scored[i].score]), 5)

\* the scan of run_once before 09:30 and from 16:00 to 20:00 (lines 973-1068)
PremarketScan(snaps, hist, opens, t) ==
    LET keep == SelectSeq(snaps, LAMBDA s :
                    /\ ~HasExcludedEnding(s.ticker)
                    /\ s.volume # NoneVal /\ s.volume >= 10
                    /\ (s.last_price # NoneVal \/ s.close # NoneVal)
                    /\ s.prev_close # NoneVal
                    /\ (IF s.last_price # NoneVal /\ s.last_price > 0
                           THEN s.last_price ELSE s.close) >= 100
                    /\ s.prev_close >= 100)
        rows == [i \in 1..Len(keep) |->
                    LET price == IF keep[i].last_price # NoneVal /\ keep[i].last_price > 0
                                    THEN keep[i].last_price ELSE keep[i].close
                    IN  [ticker |-> keep[i].ticker, price |-> price,
                         prev |-> keep[i].prev_close, volume |-> keep[i].volume,
                         gap |-> GapPct(price, keep[i].prev_close)]]
        h[i \in 0..Len(rows)] ==
            IF i = 0 THEN hist
            ELSE record_snapshot(h[i - 1], rows[i].ticker, rows[i].price,
                                 rows[i].volume, t)
        sorted == StableSortDesc(rows, [i \in 1..Len(rows) |-> rows[i].gap])
    IN  [hist |-> h[Len(rows)], opens |-> opens,
         top5 |-> Top5(sorted, h[Len(rows)], opens, t)]

\* run_once(cfg, logger) without debug, the provider answering with snaps
run_once(c, snaps, hist, opens, t) ==
    LET opens1 == log_group_watchlist(c, snaps, opens, t)
        is_premarket == Hour(t) < 9 \/ (Hour(t) = 9 /\ Minute(t) < 30)
        is_postmarket == Hour(t) >= 16 /\ Hour(t) < 20
    IN  IF is_premarket \/ is_postmarket
            THEN PremarketScan(snaps, hist, opens1, t)
            ELSE [hist |-> hist, opens |-> opens1, top5 |-> <<>>]

\* the dummy row run_once appends in debug mode
DebugRow(t) ==
    _final_pick_row([date |-> "today", time |-> t \div 60, ticker |-> "DEBUG",
                     gap_pct |-> 0, rvol |-> 100, atr_stretch |-> 100,
                     premarket_high |-> 0, open_price |-> 0, score |-> 0],
                    0, TRUE, "Debug", t)

\* the watchlist block of one monitoring iteration (lines 1351-1450)
MonitorScan(c, snaps, hist, opens, t) ==
    LET opens1 == log_group_watchlist(c, snaps, opens, t)
        keep == SelectSeq(snaps, LAMBDA s :
                    /\ ~HasExcludedEnding(s.ticker)
                    /\ s.volume # NoneVal /\ s.volume >= 10
                    /\ s.last_price # NoneVal /\ s.prev_close # NoneVal
                    /\ s.last_price >= 100 /\ s.prev_close >= 100)
        o[i \in 0..Len(keep)] ==
            IF i = 0 THEN opens1
            ELSE IF is_market_open(t)
                THEN record_market_open_price(o[i - 1], keep[i].ticker,
                                              keep[i].last_price)
                ELSE o[i - 1]
        opens2 == o[Len(keep)]
        rows == [i \in 1..Len(keep) |->
                    [ticker |-> keep[i].ticker, price |-> keep[i].last_price,
                     prev |-> keep[i].prev_close, volume |-> keep[i].volume,
                     gap |-> IF get_market_open_price(opens2, keep[i].ticker) # NoneVal
                                THEN GapPct(keep[i].last_price,
                                            get_market_open_price(opens2, keep[i].ticker))
                                ELSE GapPct(keep[i].last_price, keep[i].prev_close)]]
        h[i \in 0..Len(rows)] ==
            IF i = 0 THEN hist
            ELSE record_snapshot(h[i - 1], rows[i].ticker, rows[i].price,
                                 rows[i].volume, t)
        hist2 == h[Len(rows)]
    IN  [hist |-> hist2, opens |-> opens2, top5 |-> Top5(rows, hist2, opens2, t)]

----------------------------------------------------------------------------
(* run() *)

\* the times of day a run is started at
StartTimes ==
    { HM(3, 58) + 30, HM(9, 14) + 30, HM(9, 24) + 30, HM(9, 30), HM(9, 35), HM(9, 40),
      HM(15, 58), HM(16, 30) }

Iter(kind, selection, watchlist, top5, t) ==
    [kind |-> kind, selection |-> selection, watchlist |-> watchlist,
     top5 |-> top5, at |-> t, made_before |-> pick_made, rows_before |-> Len(today_pick)]

\* no function of the module has been called from outside run()
NoCalls == [n |-> 0, recorded |-> clear_snapshot_history, last |-> [op |-> "none"]]

Init ==
    /\ cfg \in Configs
    /\ now \in StartTimes
    /\ pc = "premarket"
    /\ pick_made = FALSE
    /\ today_pick = <<>>
    /\ SNAPSHOT_HISTORY = clear_snapshot_history
    /\ MARKET_OPEN_PRICES = [t \in Tickers |-> NoneVal]
    /\ ticks = 0
    /\ faults = 0
    /\ lastIter = Iter("start", "none", "none", <<>>, now)
    /\ lastPass = NoPass
    /\ calls = NoCalls
    /\ _DEFICIENCY_CACHE = NoCache

\* one iteration of "while within_premarket_window(cfg)": run_once under
\* try/except, then the sleep of one cadence; the run is followed for
\* max_ticks ticks, and after varied_ticks of them the provider answers every
\* fetch with its first batch
PremarketTickWithin(max_ticks, varied_ticks) ==
    /\ pc = "premarket"
    /\ within_premarket_window(cfg, now)
    /\ ticks < max_ticks
    /\ \E b \in 0..Len(Batches) :
          /\ ticks >= varied_ticks => b = 1
          /\ b = 0 => faults < MaxFaults /\ ~cfg.debug
          /\ cfg.debug => b = 1
          /\ IF cfg.debug
                THEN /\ today_pick' = Append(today_pick, DebugRow(now))
                     /\ UNCHANGED <<SNAPSHOT_HISTORY, MARKET_OPEN_PRICES, faults>>
                     /\ lastIter' = Iter("premarket", "none", "none", <<>>, now)
             ELSE IF b = 0
                THEN /\ faults' = faults + 1
                     /\ UNCHANGED <<today_pick, SNAPSHOT_HISTORY, MARKET_OPEN_PRICES>>
                     /\ lastIter' = Iter("premarket", "none", "error", <<>>, now)
             ELSE \E r \in {run_once(cfg, Batches[b], SNAPSHOT_HISTORY,
                                     MARKET_OPEN_PRICES, now)} :
                     /\ SNAPSHOT_HISTORY' = r.hist
                     /\ MARKET_OPEN_PRICES' = r.opens
                     /\ UNCHANGED <<today_pick, faults>>
                     /\ lastIter' = Iter("premarket", "none", "logged", r.top5, now)
    /\ now' = now + get_scan_cadence_minutes(now) * 60
    /\ ticks' = ticks + 1
    /\ UNCHANGED <<cfg, pc, pick_made, lastPass, calls, _DEFICIENCY_CACHE>>

PremarketTick == PremarketTickWithin(MaxTicks, MaxTicks)

\* the premarket loop ends
PremarketExit ==
    /\ pc = "premarket"
    /\ ~within_premarket_window(cfg, now)
    /\ pc' = "wait"
    /\ UNCHANGED <<cfg, now, pick_made, today_pick, SNAPSHOT_HISTORY,
                   MARKET_OPEN_PRICES, ticks, faults, lastIter, lastPass, calls,
                   _DEFICIENCY_CACHE>>

BeforeMonitoring(t) == Hour(t) < 9 \/ (Hour(t) = 9 /\ Minute(t) < 15)

\* one iteration of the wait for 09:15
WaitTick ==
    /\ pc = "wait"
    /\ BeforeMonitoring(now)
    /\ now' = now + 60
    /\ UNCHANGED <<cfg, pc, pick_made, today_pick, SNAPSHOT_HISTORY,
                   MARKET_OPEN_PRICES, ticks, faults, lastIter, lastPass, calls,
                   _DEFICIENCY_CACHE>>

\* the wait ends: pick_made = False and the monitoring loop is entered
WaitExit ==
    /\ pc = "wait"
    /\ ~BeforeMonitoring(now)
    /\ pc' = "monitor"
    /\ pick_made' = FALSE
    /\ UNCHANGED <<cfg, now, today_pick, SNAPSHOT_HISTORY,
                   MARKET_OPEN_PRICES, ticks, faults, lastIter, lastPass, calls,
                   _DEFICIENCY_CACHE>>

\* a branch choice that does not look at pick_made
SelectionBranchIgnoringPickMade(c, made, t) ==
    LET w == RunSelectionWindow(c)
    IN  IF Hour(t) = Hour(w.start) /\ Minute(t) = Minute(w.start) THEN "start"
        ELSE IF within_open_selection_window(c, t) THEN "window"
        ELSE IF t > w.end THEN "late"
        ELSE "none"

\* which branch of "if not pick_made" an iteration at time t takes
SelectionBranch(c, made, t) ==
    LET w == RunSelectionWindow(c)
    IN  IF made THEN "none"
        ELSE IF Hour(t) = Hour(w.start) /\ Minute(t) = Minute(w.start) THEN "start"
        ELSE IF within_open_selection_window(c, t) THEN "window"
        ELSE IF t > w.end THEN "late"
        ELSE "none"

\* one iteration of the monitoring loop: the pick, the close check, the
\* watchlist block, the sleep; the run is followed for max_ticks ticks, and
\* after varied_ticks of them the provider answers every fetch with its first
\* batch, no step of the pass raises and the clock is read once
MonitorIterWithin(max_ticks, varied_ticks) ==
    /\ pc = "monitor"
    /\ ticks < max_ticks
    /\ LET branch == SelectionBranch(cfg, pick_made, now)
       IN  \E e \in PassInputs, d \in 0..MaxSkew :
             /\ ticks >= varied_ticks
                   => d = 0 /\ (branch # "none" => e = [batch |-> 1, raises |-> {}])
             /\ branch = "none" => e = NoInput
             /\ branch # "window" => d = 0
             /\ branch # "none" => FaultsOf(e) <= MaxFaults - faults
             /\ \E pass \in {IF branch = "none" THEN lastPass
                              ELSE [run_open_selection_once(cfg, SNAPSHOT_HISTORY,
                                        MARKET_OPEN_PRICES, now + d,
                                        branch # "window", e)
                                    EXCEPT !.branch = branch, !.input = e]} :
               LET wrote == branch # "none" /\ pass.wrote
                   cost == IF branch = "none" THEN 0 ELSE FaultsOf(e)
                   opens1 == IF branch = "none" THEN MARKET_OPEN_PRICES ELSE pass.opens
                   crashed == branch = "window" /\ pass.raised
                   closed == Hour(now) >= 16
                   t1 == now + d
               IN  /\ branch # "none" => Executed(pass.outcome, e)
                   /\ lastPass' = pass
                   /\ today_pick' = IF wrote THEN Append(today_pick, pass.row)
                                    ELSE today_pick
                   /\ pick_made' = IF branch = "none" \/ crashed THEN pick_made ELSE TRUE
                   /\ IF crashed
                        THEN /\ pc' = "crashed"
                             /\ now' = t1
                             /\ faults' = faults + cost
                             /\ MARKET_OPEN_PRICES' = opens1
                             /\ lastIter' = Iter("monitor", branch, "none", <<>>, now)
                             /\ UNCHANGED SNAPSHOT_HISTORY
                      ELSE IF closed
                        THEN /\ pc' = "done"
                             /\ now' = t1
                             /\ faults' = faults + cost
                             /\ MARKET_OPEN_PRICES' = opens1
                             /\ lastIter' = Iter("close", branch, "none", <<>>, now)
                             /\ UNCHANGED SNAPSHOT_HISTORY
                      ELSE \E b \in 0..Len(Batches) :
                             /\ ticks >= varied_ticks => b = 1
                             /\ b = 0 => faults + cost < MaxFaults
                             /\ pc' = pc
                             /\ now' = t1 + get_scan_cadence_minutes(t1) * 60
                             /\ IF b = 0
                                  THEN /\ faults' = faults + cost + 1
                                       /\ MARKET_OPEN_PRICES' = opens1
                                       /\ lastIter' = Iter("monitor", branch, "error",
                                                           <<>>, now)
                                       /\ UNCHANGED SNAPSHOT_HISTORY
                                  ELSE \E scan \in {MonitorScan(cfg, Batches[b],
                                                       SNAPSHOT_HISTORY, opens1, t1)} :
                                           /\ faults' = faults + cost
                                           /\ MARKET_OPEN_PRICES' = scan.opens
                                           /\ SNAPSHOT_HISTORY' = scan.hist
                                           /\ lastIter' = Iter("monitor", branch, "logged",
                                                               scan.top5, now)
    /\ ticks' = ticks + 1
    /\ UNCHANGED <<cfg, calls, _DEFICIENCY_CACHE>>

MonitorIter == MonitorIterWithin(MaxTicks, MaxTicks)

Next == PremarketTick \/ PremarketExit \/ WaitTick \/ WaitExit \/ MonitorIter

Spec == Init /\ [][Next]_vars

----------------------------------------------------------------------------
(* Properties *)

\* the rows of the final-pick file that carry final_pick=TRUE
FinalPickRows == {i \in 1..Len(today_pick) : today_pick[i].final_pick = "TRUE"}

\* the rows the gate let through in the last pass, by ticker
SurvivorRow(tk) ==
    lastPass.rows[CHOOSE i \in 1..Len(lastPass.rows) : lastPass.rows[i].ticker = tk]

\* C1: with debug off, once a pass in which the provider answered and a
\* candidate survived the gate has made its pick (in the window, forced after
\* the window, or by the fallback after a scoring exception), the file holds
\* exactly one final_pick=TRUE row, the pass's row, from then on and when the
\* loop exits; and the loop never exits without having reached the pick.
C1_ExactlyOneFinalPick ==
    /\ (~cfg.debug /\ lastPass.survivors # {} /\ "write" \notin lastPass.input.raises)
          => /\ lastPass.outcome = "picked"
             /\ pick_made
             /\ Cardinality(FinalPickRows) = 1
             /\ \A i \in FinalPickRows : today_pick[i] = lastPass.row
    /\ pc = "done" => pick_made

\* C1: the loop has exited after a forced late pick made by the fallback
C1_Witness ==
    /\ pc = "done" /\ ~cfg.debug
    /\ lastPass.outcome = "picked" /\ lastPass.branch = "late"
    /\ lastPass.path = "fallback"
    /\ Cardinality(FinalPickRows) = 1

\* C1, scenario (a): a scored pick made inside the selection window, with
\* iterations after it
C1_WitnessInWindow ==
    /\ ~cfg.debug /\ lastPass.outcome = "picked" /\ lastPass.branch = "window"
    /\ lastPass.path = "scored" /\ lastIter.made_before
    /\ Cardinality(FinalPickRows) = 1

\* C2: whatever the configuration and the errors, the file never holds more
\* than one final_pick=TRUE row.
C2_AtMostOneFinalPick == Cardinality(FinalPickRows) <= 1

\* C3: once pick_made is true it stays true, no later iteration calls the
\* selection pass or appends a row, and every later iteration before the close
\* runs the watchlist block (the top-5 is logged, or the tick's fetch raised and
\* the error is logged).
C3_PickMadeTerminal ==
    [][pick_made =>
         /\ pick_made'
         /\ lastPass' = lastPass
         /\ today_pick' = today_pick
         /\ ticks' # ticks =>
              /\ lastIter'.selection = "none"
              /\ Hour(now) < 16 => lastIter'.watchlist \in {"logged", "error"}
              /\ Hour(now) >= 16 => pc' = "done"]_vars

\* C3: an iteration after the pick logged a non-empty top-5
C3_Witness ==
    /\ pick_made /\ lastIter.made_before /\ lastIter.kind = "monitor"
    /\ lastIter.watchlist = "logged" /\ Len(lastIter.top5) > 0
    /\ lastPass.outcome = "picked"

\* C4: a monitoring iteration at or after the end of the selection window
\* (the configured one, or 09:30-09:35 when none is configured) that starts with
\* no pick made calls the selection pass.
C4_PassOnceWindowEndReached ==
    (/\ lastIter.kind \in {"monitor", "close"}
     /\ ~lastIter.made_before
     /\ lastIter.at >= OpenSelectionWindow(cfg).end)
        => lastIter.selection # "none"

\* the fallback order of C5, from the claim: RVOL, then last price times
\* intraday volume, then gap percent, a missing value read as 0
C5_Key(r) ==
    << IF r.rvol = Blank THEN 0 ELSE r.rvol,
       r.last_price * r.intraday_volume,
       IF r.gap_pct = Blank THEN 0 ELSE r.gap_pct >>

C5_Greater(a, b) ==
    \/ a[1] > b[1]
    \/ a[1] = b[1] /\ a[2] > b[2]
    \/ a[1] = b[1] /\ a[2] = b[2] /\ a[3] > b[3]

\* C5: when scoring raises in a pass that has gate survivors, the pass goes on
\* to a final pick: the survivor no other survivor is above in the order
\* (RVOL, dollar volume, gap percent), handed to the writer as a
\* final_pick=TRUE row and in the file unless the write itself raises.
C5_FallbackPick ==
    ("scoring" \in lastPass.input.raises /\ lastPass.survivors # {})
        => /\ lastPass.path = "fallback"
           /\ lastPass.outcome \in {"picked", "write_failed"}
           /\ lastPass.winner \in lastPass.survivors
           /\ \A tk \in lastPass.survivors :
                 ~C5_Greater(C5_Key(SurvivorRow(tk)), C5_Key(SurvivorRow(lastPass.winner)))
           /\ lastPass.row.ticker = lastPass.winner
           /\ lastPass.row.final_pick = "TRUE"
           /\ lastPass.outcome = "picked"
                 => \E i \in 1..Len(today_pick) : today_pick[i] = lastPass.row

\* C5: a fallback pick whose RVOL tie was settled by dollar volume, and which
\* is not the survivor with the greatest gap
C5_Witness ==
    /\ lastPass.outcome = "picked" /\ lastPass.path = "fallback"
    /\ \E tk \in lastPass.survivors \ {lastPass.winner} :
          /\ SurvivorRow(tk).rvol = SurvivorRow(lastPass.winner).rvol
          /\ SurvivorRow(tk).gap_pct > SurvivorRow(lastPass.winner).gap_pct
    /\ \E i \in 1..Len(today_pick) : today_pick[i].ticker = lastPass.winner

\* C6: the rationale of a row written by the fallback is not the rationale of
\* a row written by the scored path.
C6_FallbackRationaleDistinct ==
    (lastPass.wrote /\ lastPass.path = "fallback")
        => lastPass.row.rationale # RationaleAtOpen

\* C7: the pick of the scored path is a survivor whose composite score no
\* other survivor exceeds.
C7_WinnerHasMaxComposite ==
    (lastPass.wrote /\ lastPass.path = "scored")
        => \A tk \in lastPass.survivors :
              lastPass.composite[tk] <= lastPass.composite[lastPass.winner]

\* C8: no final_pick=TRUE row names a ticker the deficiency check marks
\* deficient.
C8_NoDeficientFinalPick ==
    \A i \in FinalPickRows : today_pick[i].ticker \notin Deficient

\* C9: no pass writes as its final pick a ticker that is downtrending at the
\* time of the pick: one the heartbeat rule classifies inactive as downtrending
\* and whose last price in the pass's own snapshot is below the rule's
\* reference price too.
C9_NoDowntrendingFinalPick ==
    lastPass.wrote
        => ~(/\ ~lastPass.heartbeat[lastPass.winner].active
             /\ lastPass.heartbeat[lastPass.winner].reason = "downtrending_vs"
             /\ SurvivorRow(lastPass.winner).last_price
                   < lastPass.heartbeat[lastPass.winner].reference_price)

\* C10: run() is never ended by an exception of fetch_snapshots.
C10_FetchErrorNeverEndsRun == pc # "crashed"

\* the candidate pool of the last pass, and the candidates the gate lets
\* through when every one of them is enriched
PassCandidates ==
    IF lastPass.input.batch = 0 THEN <<>>
    ELSE prefilter_top_gappers(Batches[lastPass.input.batch],
                               cfg.candidate_pool_size, 25)

PassWouldSurvive ==
    apply_liquidity_filters(enrich_rows(PassCandidates, lastPass.at), cfg, lastPass.at)

\* C11: when enrichment raises for one candidate of a pass, only that candidate
\* is lost: with two or more candidates that pass the gate once enriched, the
\* pass still gates and scores the rest and reaches a final pick.
C11_EnrichFailureDropsOneCandidate ==
    (/\ lastPass.outcome \notin {"not_called", "window_not_active", "fetch_raised"}
     /\ "enrich" \in lastPass.input.raises
     /\ Len(PassWouldSurvive) >= 2)
        => /\ lastPass.winner # "none"
           /\ lastPass.outcome \in {"picked", "write_failed"}

\* the configuration carries no liquidity thresholds for some session
LacksLiquidityThresholds(c) ==
    \E session \in {"premarket", "regular"} : session \notin DOMAIN c.liquidity

\* C12: with a configuration that lacks the sessions' liquidity thresholds
\* the process fails before the first tick: no tick runs, no selection pass is
\* called and no final pick is written.
C12_NoTickWithoutLiquidityThresholds ==
    LacksLiquidityThresholds(cfg)
        => /\ ticks = 0
           /\ lastPass.outcome = "not_called"
           /\ FinalPickRows = {}

\* C12: a final pick written by a pass that gated its candidates with the
\* defaulted thresholds
C12_PickWithDefaultedThresholds ==
    /\ LacksLiquidityThresholds(cfg)
    /\ lastPass.outcome = "picked"
    /\ FinalPickRows # {}

----------------------------------------------------------------------------
(* run() called again in the same process *)

\* run() has returned, or an exception has left it, and the process calls it
\* again: the final-pick file is reset from its template and the history is
\* cleared (scanner.py 1269-1273); nothing else of the module state is touched
RunAgain ==
    /\ pc \in {"done", "crashed"}
    /\ pc' = "premarket"
    /\ now' \in StartTimes
    /\ today_pick' = <<>>
    /\ SNAPSHOT_HISTORY' = clear_snapshot_history
    /\ pick_made' = FALSE
    /\ lastIter' = [Iter("start", "none", "none", <<>>, now')
                       EXCEPT !.made_before = FALSE, !.rows_before = 0]
    /\ lastPass' = NoPass
    /\ UNCHANGED <<cfg, MARKET_OPEN_PRICES, ticks, faults, calls, _DEFICIENCY_CACHE>>

NextRerun == Next \/ RunAgain

SpecRerun == Init /\ [][NextRerun]_vars

\* C13: at the start of every run(), a second run() in the same process
\* included, and until its first tick, every history queue is empty and no
\* ticker has a market-open anchor.
C13_RunStartsWithEmptyState ==
    lastIter.kind = "start"
        => /\ \A tk \in Tickers : Len(get_snapshot_history(SNAPSHOT_HISTORY, tk)) = 0
           /\ \A tk \in Tickers : get_market_open_price(MARKET_OPEN_PRICES, tk) = NoneVal

----------------------------------------------------------------------------
(* The snapshot history driven by direct calls: record_snapshot with the     *)
(* timestamp defaulted or passed by the caller, and clear_snapshot_history   *)

\* the configuration of the repository's defaults
DefaultConfig ==
    [debug |-> FALSE, selection_window |-> NoWindow, candidate_pool_size |-> 100,
     premarket |-> [start_time |-> HM(4, 0), end_time |-> HM(9, 30)],
     liquidity |-> Liquidity, group_watchlist |-> {"AAA"}]

\* the module just imported, run() not called, the clock at t
Imported(t) ==
    /\ cfg = DefaultConfig
    /\ now = t
    /\ pc = "library"
    /\ pick_made = FALSE
    /\ today_pick = <<>>
    /\ SNAPSHOT_HISTORY = clear_snapshot_history
    /\ MARKET_OPEN_PRICES = [tk \in Tickers |-> NoneVal]
    /\ ticks = 0
    /\ faults = 0
    /\ lastIter = Iter("start", "none", "none", <<>>, t)
    /\ lastPass = NoPass
    /\ calls = NoCalls
    /\ _DEFICIENCY_CACHE = NoCache

\* the tickers the calls record: "CCC" is never recorded
RecordedTickers == {"AAA", "BBB"}

HistoryInit == Imported(HM(9, 20))

\* record_snapshot(ticker, price, volume) and
\* record_snapshot(ticker, price, volume, timestamp), the clock moving on by
\* a minute between two calls
RecordSnapshotCall ==
    /\ calls.n < MaxCalls
    /\ \E ticker \in RecordedTickers, passed \in {NoneVal, now - 120} :
         LET timestamp == TimestampOrNow(passed, now)
         IN  /\ SNAPSHOT_HISTORY' =
                    record_snapshot(SNAPSHOT_HISTORY, ticker, 1000, 100, timestamp)
             /\ calls' = [n |-> calls.n + 1,
                          recorded |-> [calls.recorded EXCEPT
                                           ![ticker] = Append(@, <<timestamp, 1000, 100>>)],
                          last |-> [op |-> "record_snapshot", ticker |-> ticker,
                                    passed |-> passed]]
    /\ now' = now + 60
    /\ UNCHANGED <<cfg, pc, pick_made, today_pick, MARKET_OPEN_PRICES, ticks,
                   faults, lastIter, lastPass, _DEFICIENCY_CACHE>>

\* clear_snapshot_history()
ClearHistoryCall ==
    /\ calls.n < MaxCalls
    /\ SNAPSHOT_HISTORY' = clear_snapshot_history
    /\ calls' = [n |-> calls.n + 1, recorded |-> clear_snapshot_history,
                 last |-> [op |-> "clear_snapshot_history"]]
    /\ UNCHANGED <<cfg, now, pc, pick_made, today_pick, MARKET_OPEN_PRICES, ticks,
                   faults, lastIter, lastPass, _DEFICIENCY_CACHE>>

HistoryNext == RecordSnapshotCall \/ ClearHistoryCall

SpecHistory == HistoryInit /\ [][HistoryNext]_vars

\* C14: after any sequence of record_snapshot calls and resets,
\* get_snapshot_history(ticker) is, oldest first, exactly the last min(k, 5)
\* of the k entries recorded for the ticker since the last reset: never more
\* than 5, the oldest dropped by a 6th, and empty for a ticker never recorded.
C14_HistoryIsLastFive ==
    \A ticker \in Tickers :
        LET k == Len(calls.recorded[ticker])
            history == get_snapshot_history(SNAPSHOT_HISTORY, ticker)
        IN  /\ Len(history) = Min(k, 5)
            /\ \A i \in 1..Len(history) :
                  history[i] = calls.recorded[ticker][k - Len(history) + i]

\* C14: a ticker recorded six times or more since the last reset: its queue
\* holds five entries, the first one dropped, and the queue of the ticker never
\* recorded is empty
C14_Witness ==
    \E ticker \in RecordedTickers :
        /\ Len(calls.recorded[ticker]) >= 6
        /\ Len(get_snapshot_history(SNAPSHOT_HISTORY, ticker)) = 5
        /\ get_snapshot_history(SNAPSHOT_HISTORY, ticker)[1] = calls.recorded[ticker][2]
        /\ get_snapshot_history(SNAPSHOT_HISTORY, "CCC") = <<>>

\* C15: in every reachable state the entries of every ticker's history are in
\* increasing order of timestamp, whether record_snapshot took the clock or
\* a timestamp passed by its caller.
C15_HistoryTimestampsIncrease ==
    \A ticker \in Tickers :
        LET history == get_snapshot_history(SNAPSHOT_HISTORY, ticker)
        IN  \A i \in 1..(Len(history) - 1) : history[i][1] <= history[i + 1][1]

----------------------------------------------------------------------------
(* Market-open anchors *)

\* C16: the market-open anchor is write-once: a tick that runs before 09:30
\* sets no anchor, and once a ticker has an anchor get_market_open_price
\* returns that first price in every later state of the run.
C16_AnchorWriteOnce ==
    [][\A ticker \in Tickers :
         /\ get_market_open_price(MARKET_OPEN_PRICES, ticker) # NoneVal
               => get_market_open_price(MARKET_OPEN_PRICES', ticker)
                     = get_market_open_price(MARKET_OPEN_PRICES, ticker)
         /\ get_market_open_price(MARKET_OPEN_PRICES', ticker)
               # get_market_open_price(MARKET_OPEN_PRICES, ticker)
               => is_market_open(now)]_vars

\* C16: a ticker whose anchor was recorded by one tick and whose price in a
\* later tick of the run is another one: the anchor is still the first price
C16_Witness ==
    \E ticker \in Tickers :
        LET history == get_snapshot_history(SNAPSHOT_HISTORY, ticker)
        IN  /\ get_market_open_price(MARKET_OPEN_PRICES, ticker) # NoneVal
            /\ Len(history) >= 2
            /\ is_market_open(history[Len(history) - 1][1])
            /\ history[Len(history) - 1][2]
                  = get_market_open_price(MARKET_OPEN_PRICES, ticker)
            /\ history[Len(history)][2]
                  # get_market_open_price(MARKET_OPEN_PRICES, ticker)

----------------------------------------------------------------------------
(* has_heartbeat called on a history drawn from a bounded set *)

\* minutes before the call at which the entries of the history were recorded
Offsets == <<40, 10, 4, 0>>

\* for each of these times, no entry (<<0, 0>>) or the price and the volume
\* recorded then: prices are positive, as every price run() records
EntryChoices == [1..Len(Offsets) -> {<<0, 0>>} \cup ({1000, 1100} \X {100, 200})]

HistoryOf(choice, t) ==
    LET idx == SelectSeq([i \in 1..Len(Offsets) |-> i], LAMBDA i : choice[i][1] # 0)
    IN  [j \in 1..Len(idx) |->
            <<t - Offsets[idx[j]] * 60, choice[idx[j]][1], choice[idx[j]][2]>>]

\* "AAA" has a history of at most MaxEntries entries and maybe an anchor, the
\* other tickers have neither; the clock is in one of the three window regimes
HeartbeatInit ==
    /\ cfg = DefaultConfig
    /\ now \in {HM(9, 0), HM(9, 40), HM(12, 30)}
    /\ pc = "library"
    /\ pick_made = FALSE
    /\ today_pick = <<>>
    /\ \E choice \in EntryChoices :
          /\ Len(HistoryOf(choice, now)) <= MaxEntries
          /\ SNAPSHOT_HISTORY =
                [clear_snapshot_history EXCEPT !["AAA"] = HistoryOf(choice, now)]
    /\ \E anchor \in {NoneVal, 1000, 1100} :
          MARKET_OPEN_PRICES = [tk \in Tickers |-> IF tk = "AAA" THEN anchor ELSE NoneVal]
    /\ ticks = 0
    /\ faults = 0
    /\ lastIter = Iter("start", "none", "none", <<>>, now)
    /\ lastPass = NoPass
    /\ calls = NoCalls
    /\ _DEFICIENCY_CACHE = NoCache

\* has_heartbeat(ticker) with its default thresholds: 0.5 percent, 1000 shares
HasHeartbeatCall ==
    /\ calls.n = 0
    /\ \E ticker \in RecordedTickers :
          calls' = [n |-> 1, recorded |-> calls.recorded,
                    last |-> [op |-> "has_heartbeat", ticker |-> ticker,
                              result |-> has_heartbeat(SNAPSHOT_HISTORY,
                                             MARKET_OPEN_PRICES, ticker, now, 500, 1)]]
    /\ UNCHANGED <<cfg, now, pc, pick_made, today_pick, SNAPSHOT_HISTORY,
                   MARKET_OPEN_PRICES, ticks, faults, lastIter, lastPass, _DEFICIENCY_CACHE>>

HeartbeatNext == HasHeartbeatCall

SpecHeartbeat == HeartbeatInit /\ [][HeartbeatNext]_vars

\* the history of the ticker of the last call, and its entries inside the
\* lookback window active at the time of the call
CalledHistory == get_snapshot_history(SNAPSHOT_HISTORY, calls.last.ticker)

CalledInWindow ==
    EntriesSince(CalledHistory, now - get_heartbeat_window_minutes(now) * 60)

\* the entries the claims' reference price is read from: those inside the
\* window, or the last two of the history when fewer than two are inside
CalledWindow ==
    IF Len(CalledInWindow) >= 2 THEN CalledInWindow
    ELSE SubSeq(CalledHistory, Len(CalledHistory) - 1, Len(CalledHistory))

\* the reference price of the claims: the anchor when it exists and the
\* market is open, else the oldest price of the window
CalledAnchored ==
    is_market_open(now) /\ get_market_open_price(MARKET_OPEN_PRICES, calls.last.ticker) # NoneVal

CalledReference ==
    IF CalledAnchored THEN get_market_open_price(MARKET_OPEN_PRICES, calls.last.ticker)
    ELSE CalledWindow[1][2]

CalledNewest == CalledHistory[Len(CalledHistory)][2]

CalledVolumeGrowth == CalledWindow[Len(CalledWindow)][3] - CalledWindow[1][3]

CalledFrozen == \A i \in 1..Len(CalledWindow) : CalledWindow[i][2] = CalledWindow[1][2]

\* C17: when at least 2 entries of the ticker's history are inside the active
\* lookback window and all of them carry the same (positive) price,
\* has_heartbeat returns (False, "price_frozen"), whatever the volume growth
\* and whatever the reference price.
C17_ConstantPriceIsFrozen ==
    (/\ calls.last.op = "has_heartbeat"
     /\ Len(CalledInWindow) >= 2
     /\ \A i \in 1..Len(CalledInWindow) : CalledInWindow[i][2] = CalledInWindow[1][2])
        => /\ ~calls.last.result.active
           /\ calls.last.result.reason = "price_frozen"

\* C17: a frozen verdict on a window whose volume grew and whose constant
\* price is not the reference price
C17_Witness ==
    /\ calls.last.op = "has_heartbeat"
    /\ Len(CalledInWindow) >= 2
    /\ calls.last.result.reason = "price_frozen"
    /\ CalledVolumeGrowth >= 1
    /\ CalledReference # CalledNewest

\* C18 as stated: with at least 2 history entries, a window to read the
\* reference price from, and the newest price below the reference price,
\* has_heartbeat returns inactive with the reason downtrending_vs_<ref>,
\* regardless of volume growth.
C18_BelowReferenceIsDowntrending ==
    (/\ calls.last.op = "has_heartbeat"
     /\ Len(CalledHistory) >= 2
     /\ Len(CalledInWindow) >= 2 \/ get_heartbeat_window_minutes(now) <= 5
     /\ CalledNewest < CalledReference)
        => /\ ~calls.last.result.active
           /\ calls.last.result.reason = "downtrending_vs"

\* C18, amended: with at least 2 entries in the window has_heartbeat judges
\* (those inside the lookback window, or the last two of the history when the
\* window is the 5-minute one), not all of one price, and the newest price below
\* the reference price, has_heartbeat returns inactive with the reason
\* downtrending_vs_<ref>, <ref> naming the reference used, regardless of volume
\* growth.
C18_BelowReferenceNotFrozenIsDowntrending ==
    (/\ calls.last.op = "has_heartbeat"
     /\ Len(CalledHistory) >= 2
     /\ Len(CalledInWindow) >= 2 \/ get_heartbeat_window_minutes(now) <= 5
     /\ ~CalledFrozen
     /\ CalledNewest < CalledReference)
        => /\ ~calls.last.result.active
           /\ calls.last.result.reason = "downtrending_vs"
           /\ calls.last.result.ref =
                 IF CalledAnchored THEN "open_930"
                 ELSE RefLabel(get_heartbeat_window_minutes(now))

\* C18: a downtrending verdict against the open anchor on a window whose
\* volume grew by the minimum or more
C18_Witness ==
    /\ calls.last.op = "has_heartbeat"
    /\ Len(CalledHistory) >= 2
    /\ calls.last.result.reason = "downtrending_vs"
    /\ calls.last.result.ref = "open_930"
    /\ CalledNewest < CalledReference
    /\ CalledVolumeGrowth >= 1

\* C19: has_heartbeat never returns active for a ticker with at least 2
\* history entries whose newest price is below its reference price.
C19_NeverActiveBelowReference ==
    (/\ calls.last.op = "has_heartbeat"
     /\ Len(CalledHistory) >= 2
     /\ CalledNewest < CalledReference)
        => ~calls.last.result.active

\* C19: an inactive verdict on a ticker with no anchor in use, three entries
\* in its window, the newest price below the oldest and the volume growing
C19_Witness ==
    /\ calls.last.op = "has_heartbeat"
    /\ Len(CalledHistory) >= 3
    /\ Len(CalledWindow) >= 3
    /\ ~CalledAnchored
    /\ CalledNewest < CalledReference
    /\ CalledVolumeGrowth >= 1
    /\ ~calls.last.result.active

----------------------------------------------------------------------------
(* is_deficient_nasdaq called on daily bars drawn from a bounded set *)

\* sequences of at most n closes, each 0.80 or 1.50
OlderBars(n) == UNION {[1..k -> {80, 150}] : k \in 0..n}

\* the closes of the bars the provider holds, oldest first: a few older bars,
\* then a run of 29 to 31 equal closes of 0.80, 0.99 or 1.00
DailyBars ==
    {older \o Rep(k, close) :
        older \in OlderBars(MaxOlderBars), k \in 29..31, close \in {80, 99, 100}}

\* a run of 30 or 31 closes of 0.80 followed by 1 to MaxRecoveryBars most
\* recent closes of 1.20
RecoveryBars ==
    {Rep(below, 80) \o Rep(k, 120) : below \in 30..31, k \in 1..MaxRecoveryBars}

\* what the provider answers to a call that is not the first of the process
LaterBars == {Rep(30, 80), Rep(31, 150)}

\* lookback_days: the default, and a longer one
Lookbacks == {45, 60}

\* the most weekdays there are among the lookback_days + 1 calendar days from
\* start to end: no answer of the provider holds more daily bars
WeekdaysIn(lookback_days) ==
    5 * ((lookback_days + 1) \div 7) + Min((lookback_days + 1) % 7, 5)

\* the ways the request for the bars ends: answered, or one of the errors
FetchOutcomes == {"ok", "missing_key", "timeout", "http_error"}

\* the tickers the calls ask about
CheckedTickers == {"AAA", "BBB"}

\* the process has called nothing yet (the verdict cache is empty) and the
\* provider holds the bars of the ticker
DeficiencyInit ==
    /\ cfg = DefaultConfig
    /\ now = HM(9, 20)
    /\ pc = "library"
    /\ pick_made = FALSE
    /\ today_pick = <<>>
    /\ SNAPSHOT_HISTORY = clear_snapshot_history
    /\ MARKET_OPEN_PRICES = [tk \in Tickers |-> NoneVal]
    /\ ticks = 0
    /\ faults = 0
    /\ lastIter = Iter("start", "none", "none", <<>>, now)
    /\ lastPass = NoPass
    /\ \E bars \in DailyBars \cup RecoveryBars :
          calls = [n |-> 0, recorded |-> clear_snapshot_history,
                   last |-> [op |-> "none", bars |-> bars],
                   verdicts |-> [tk \in Tickers |-> <<>>]]
    /\ _DEFICIENCY_CACHE = NoCache

\* is_deficient_nasdaq(ticker, lookback_days) with its default grace period:
\* the request for the bars, when one is made, is answered or raises.  The
\* first call of the process meets the bars drawn at the start, under any
\* lookback that can hold them and any outcome of the request; a later call
\* uses the default lookback and meets any of LaterBars, or a timeout
IsDeficientCall ==
    /\ calls.n < MaxChecks
    /\ \E ticker \in CheckedTickers, fetch \in FetchOutcomes, lookback_days \in Lookbacks,
          bars \in (IF calls.n = 0 THEN {calls.last.bars} ELSE LaterBars) :
          /\ Len(bars) <= WeekdaysIn(lookback_days)
          /\ calls.n > 0 => lookback_days = 45 /\ fetch \in {"ok", "timeout"}
          /\ \E r \in {is_deficient_nasdaq_cached(_DEFICIENCY_CACHE, ticker, bars,
                                                   fetch = "ok", 10)} :
                /\ _DEFICIENCY_CACHE' = r.cache
                /\ calls' = [n |-> calls.n + 1, recorded |-> calls.recorded,
                             last |-> [op |-> "is_deficient_nasdaq", ticker |-> ticker,
                                       lookback_days |-> lookback_days,
                                       bars |-> bars, fetch |-> fetch,
                                       fetch_ok |-> fetch = "ok",
                                       fetched |-> r.fetched,
                                       result |-> r.result],
                             verdicts |-> [calls.verdicts EXCEPT ![ticker] =
                                              Append(@, [result |-> r.result,
                                                         fetched |-> r.fetched])]]
    /\ UNCHANGED <<cfg, now, pc, pick_made, today_pick, SNAPSHOT_HISTORY,
                   MARKET_OPEN_PRICES, ticks, faults, lastIter, lastPass>>

DeficiencyNext == IsDeficientCall

SpecDeficiency == DeficiencyInit /\ [][DeficiencyNext]_vars

\* C20: given daily bars whose most recent 30 closes, or more, are all below
\* 1.00, is_deficient_nasdaq returns deficient; for exactly 30 bars closing at
\* 0.80 the verdict is (True, "deficient_30d_below_$1").
C20_ThirtyClosesBelowOneDollar ==
    (/\ calls.last.op = "is_deficient_nasdaq"
     /\ calls.last.fetched
     /\ calls.last.fetch_ok
     /\ Len(calls.last.bars) >= 30
     /\ \A i \in (Len(calls.last.bars) - 29)..Len(calls.last.bars) :
           calls.last.bars[i] < 100)
        => /\ calls.last.result.is_deficient
           /\ calls.last.bars = Rep(30, 80)
                 => calls.last.result = Verdict(TRUE, "deficient_d_below_$1", 30)

\* C20: the verdict on exactly 30 bars that all closed at 0.80
C20_Witness ==
    /\ calls.last.op = "is_deficient_nasdaq"
    /\ calls.last.fetched
    /\ calls.last.fetch_ok
    /\ calls.last.bars = Rep(30, 80)
    /\ calls.last.result.is_deficient
    /\ calls.last.result.days = 30

\* the number of most recent consecutive closes at or above 1.00
RecentAbove(bars) ==
    Cardinality({k \in 1..Len(bars) :
                    \A i \in (Len(bars) - k + 1)..Len(bars) : bars[i] >= 100})

\* the number of consecutive closes below 1.00 that come just before them
BelowBefore(bars) ==
    LET n == Len(bars) - RecentAbove(bars)
    IN  Cardinality({k \in 1..n : \A i \in (n - k + 1)..n : bars[i] < 100})

\* the last call fetched bars in which 30 or more consecutive closes below
\* 1.00 are followed by the most recent closes, all at or above 1.00
FetchedRecovery ==
    /\ calls.last.op = "is_deficient_nasdaq"
    /\ calls.last.fetched
    /\ calls.last.fetch_ok
    /\ BelowBefore(calls.last.bars) >= 30
    /\ RecentAbove(calls.last.bars) >= 1

\* C21: on a history in which 30 or more consecutive closes below 1.00 are
\* followed by k most recent closes at or above 1.00, 1 <= k < 10,
\* is_deficient_nasdaq returns deficient with the reason grace_period_k/10d.
C21_GracePeriodKeepsDeficient ==
    (FetchedRecovery /\ RecentAbove(calls.last.bars) < 10)
        => calls.last.result =
              Verdict(TRUE, "grace_period", RecentAbove(calls.last.bars))

\* C22: on a history in which 30 or more consecutive closes below 1.00 are
\* followed by 10 or more most recent closes at or above 1.00,
\* is_deficient_nasdaq returns not deficient.
C22_GracePeriodCompleteIsCompliant ==
    (FetchedRecovery /\ RecentAbove(calls.last.bars) >= 10)
        => ~calls.last.result.is_deficient

\* C23: when the request for the bars fails (missing key, timeout, HTTP
\* error) or fewer than 30 daily bars are returned, is_deficient_nasdaq returns
\* not deficient: the verdict is check_error or insufficient_history, never
\* an exception.
C23_NotDeficientOnUncertainty ==
    (/\ calls.last.op = "is_deficient_nasdaq"
     /\ calls.last.fetched
     /\ ~calls.last.fetch_ok \/ Len(calls.last.bars) < 30)
        => /\ ~calls.last.result.is_deficient
           /\ calls.last.result.reason
                 = IF calls.last.fetch_ok THEN "insufficient_history" ELSE "check_error"

\* C23: a request that timed out for a ticker whose bars would have shown 30
\* closes below 1.00
C23_Witness ==
    /\ calls.last.op = "is_deficient_nasdaq"
    /\ calls.last.fetched
    /\ calls.last.fetch = "timeout"
    /\ Len(calls.last.bars) >= 30
    /\ \A i \in 1..Len(calls.last.bars) : calls.last.bars[i] < 100
    /\ ~calls.last.result.is_deficient

\* C24: within one process every call of is_deficient_nasdaq(ticker) after
\* the first returns the first call's verdict and requests no bars, whatever
\* the provider would answer then and wherever the first verdict came from.
C24_VerdictCachedPerTicker ==
    calls.last.op = "is_deficient_nasdaq"
        => \A ticker \in Tickers :
              \A i \in 2..Len(calls.verdicts[ticker]) :
                 /\ calls.verdicts[ticker][i].result = calls.verdicts[ticker][1].result
                 /\ ~calls.verdicts[ticker][i].fetched

\* C24: a second call for a ticker whose first verdict came from a failed
\* request, while the provider would now answer 30 closes below 1.00
C24_Witness ==
    /\ calls.last.op = "is_deficient_nasdaq"
    /\ Len(calls.verdicts[calls.last.ticker]) >= 2
    /\ calls.verdicts[calls.last.ticker][1].result.reason = "check_error"
    /\ calls.last.fetch_ok
    /\ calls.last.bars = Rep(30, 80)
    /\ calls.last.result.reason = "check_error"
    /\ ~calls.last.fetched

----------------------------------------------------------------------------
(* apply_liquidity_filters called on a batch drawn from a bounded set *)

\* the keys of the dropped counter of apply_liquidity_filters
DropReasons == {"missing_prices", "price_floor", "shares", "avg", "dollar"}

\* a counter that counts a row under every threshold it fails
DroppedUnderEveryReason(rows, c, t) ==
    LET liq_cfg == get_liquidity_cfg(c, t)
        Fails(r, reason) ==
            CASE reason = "missing_prices" ->
                    DictGet(liq_cfg, "require_prices", TRUE)
                        /\ (r.last_price = 0 \/ r.prev_close = 0)
              [] reason = "price_floor" -> r.last_price < DictGet(liq_cfg, "min_price", 0)
              [] reason = "shares" ->
                    r.intraday_volume < DictGet(liq_cfg, "min_intraday_shares", 0)
              [] reason = "avg" ->
                    r.avg_daily_volume < DictGet(liq_cfg, "min_avg_daily_volume", 0)
              [] OTHER -> _dollar_volume(r) < DictGet(liq_cfg, "min_dollar_volume", 0)
    IN  [reason \in DropReasons |->
            Cardinality({i \in 1..Len(rows) : Fails(rows[i], reason)})]

\* the dropped counter of apply_liquidity_filters after its loop: each row
\* that is not kept adds one under the first threshold it fails
dropped(rows, c, t) ==
    [reason \in DropReasons |->
        Cardinality({i \in 1..Len(rows) :
                        LiquidityVerdict(rows[i], get_liquidity_cfg(c, t)) = reason})]

\* enriched rows: prices missing (0) or present, below or above the premarket
\* price floor, with small and large volumes
GateRows ==
    [last_price : {0, 99, 1000}, prev_close : {0, 1000},
     intraday_volume : {5, 200, 2000}, avg_daily_volume : {50, 3500}]
    \ [last_price : {0, 99}, prev_close : {0},
       intraday_volume : {5, 200, 2000}, avg_daily_volume : {50, 3500}]

GateBatches == UNION {[1..k -> GateRows] : k \in 0..MaxRows}

\* the repository's thresholds, and a configuration whose premarket block
\* requires no prices and sets no price or dollar floor
LenientConfig ==
    [DefaultConfig EXCEPT !.liquidity =
        [premarket |-> Thresholds(FALSE, 0, 10, 100, 0),
         regular   |-> Thresholds(TRUE, 25, 100, 500, 50000)]]

LiquidityInit ==
    /\ cfg \in {DefaultConfig, LenientConfig}
    /\ now \in {HM(9, 29), HM(9, 30)}
    /\ pc = "library"
    /\ pick_made = FALSE
    /\ today_pick = <<>>
    /\ SNAPSHOT_HISTORY = clear_snapshot_history
    /\ MARKET_OPEN_PRICES = [tk \in Tickers |-> NoneVal]
    /\ ticks = 0
    /\ faults = 0
    /\ lastIter = Iter("start", "none", "none", <<>>, now)
    /\ lastPass = NoPass
    /\ \E rows \in GateBatches :
          calls = [NoCalls EXCEPT !.last = [op |-> "none", rows |-> rows]]
    /\ _DEFICIENCY_CACHE = NoCache

\* apply_liquidity_filters(rows, cfg, logger)
ApplyLiquidityFiltersCall ==
    /\ calls.n = 0
    /\ calls' = [n |-> 1, recorded |-> calls.recorded,
                 last |-> [op |-> "apply_liquidity_filters", rows |-> calls.last.rows,
                           out |-> apply_liquidity_filters(calls.last.rows, cfg, now),
                           dropped |-> dropped(calls.last.rows, cfg, now)]]
    /\ UNCHANGED <<cfg, now, pc, pick_made, today_pick, SNAPSHOT_HISTORY,
                   MARKET_OPEN_PRICES, ticks, faults, lastIter, lastPass,
                   _DEFICIENCY_CACHE>>

LiquidityNext == ApplyLiquidityFiltersCall

SpecLiquidity == LiquidityInit /\ [][LiquidityNext]_vars

\* the block of the claim: premarket before 09:30, regular otherwise
C25_Block == IF now < HM(9, 30) THEN cfg.liquidity.premarket ELSE cfg.liquidity.regular

\* the row meets every threshold of the block
C25_Meets(r) ==
    /\ C25_Block.require_prices => r.last_price # 0 /\ r.prev_close # 0
    /\ r.last_price >= C25_Block.min_price
    /\ r.intraday_volume >= C25_Block.min_intraday_shares
    /\ r.avg_daily_volume >= C25_Block.min_avg_daily_volume
    /\ r.last_price * r.intraday_volume >= C25_Block.min_dollar_volume

\* C25: apply_liquidity_filters keeps a row if and only if it meets every
\* threshold of the block configured for the session (premarket before 09:30,
\* regular otherwise), the kept rows in their input order; a row with last
\* price 0.99 under a price floor of 1.00 is dropped whatever its volumes.
C25_KeptIffEveryThresholdMet ==
    calls.last.op = "apply_liquidity_filters"
        => /\ calls.last.out = SelectSeq(calls.last.rows, C25_Meets)
           /\ C25_Block.min_price = 100
                 => \A i \in 1..Len(calls.last.out) : calls.last.out[i].last_price # 99

\* C25: before 09:30, under the price floor of 1.00, a batch with a row of
\* last price 0.99 that exceeds every other threshold, and a row that is kept
C25_Witness ==
    /\ calls.last.op = "apply_liquidity_filters"
    /\ now < HM(9, 30) /\ C25_Block.min_price = 100
    /\ \E i \in 1..Len(calls.last.rows) :
          /\ calls.last.rows[i].last_price = 99
          /\ calls.last.rows[i].prev_close = 1000
          /\ calls.last.rows[i].intraday_volume = 2000
          /\ calls.last.rows[i].avg_daily_volume = 3500
    /\ Len(calls.last.out) = 1
    /\ calls.last.out[1].last_price = 1000

\* the sum of the five drop counters
C26_Dropped ==
    calls.last.dropped["missing_prices"] + calls.last.dropped["price_floor"]
        + calls.last.dropped["shares"] + calls.last.dropped["avg"]
        + calls.last.dropped["dollar"]

\* C26: for every batch the number of rows passed plus the sum of the five
\* drop counters is the batch size, each dropped row counted under exactly
\* one reason.
C26_AccountingIsExact ==
    calls.last.op = "apply_liquidity_filters"
        => /\ Len(calls.last.out) + C26_Dropped = Len(calls.last.rows)
           /\ \A reason \in DropReasons : calls.last.dropped[reason] >= 0

\* C26: a batch of which one row passes and one row that fails several
\* thresholds at once is dropped
C26_Witness ==
    /\ calls.last.op = "apply_liquidity_filters"
    /\ Len(calls.last.rows) = 2
    /\ Len(calls.last.out) = 1
    /\ C26_Dropped = 1
    /\ \E i \in 1..2 :
          /\ calls.last.rows[i].intraday_volume = 5
          /\ calls.last.rows[i].avg_daily_volume = 50

----------------------------------------------------------------------------
(* calculate_composite_score called for two tickers at one clock reading *)

\* minutes before the call at which the snapshots of a history were taken,
\* all of them inside the 30-minute window of calculate_intraday_delta
ScoreOffsets == <<20, 4, 0>>

\* per snapshot time no entry (0) or the price recorded then; the newest
\* snapshot is always there
ScorePrices ==
    {p \in [1..Len(ScoreOffsets) -> {0, 1000, 1050, 1100}] :
        /\ p[Len(ScoreOffsets)] # 0
        /\ p[2] \in {0, 1050}
        /\ p[1] # 1050}

\* the history with these prices; the cumulative volume stays at 100 thousand
\* shares or grows by 100 thousand with each snapshot time
ScoredHistory(p, growing, t) ==
    LET idx == SelectSeq([i \in 1..Len(ScoreOffsets) |-> i], LAMBDA i : p[i] # 0)
    IN  [j \in 1..Len(idx) |->
            <<t - ScoreOffsets[idx[j]] * 60, p[idx[j]],
              IF growing THEN 100 * idx[j] ELSE 100>>]

ScoredTickers == {"AAA", "BBB"}

NotScored == [scored |-> FALSE]

ScoringInit ==
    /\ cfg = DefaultConfig
    /\ now \in {HM(9, 0), HM(9, 40), HM(12, 30)}
    /\ pc = "library"
    /\ pick_made = FALSE
    /\ today_pick = <<>>
    /\ \E pa \in ScorePrices, pb \in ScorePrices, ga \in BOOLEAN, gb \in BOOLEAN :
          SNAPSHOT_HISTORY =
              [clear_snapshot_history EXCEPT !["AAA"] = ScoredHistory(pa, ga, now),
                                             !["BBB"] = ScoredHistory(pb, gb, now)]
    /\ MARKET_OPEN_PRICES = [tk \in Tickers |-> NoneVal]
    /\ ticks = 0
    /\ faults = 0
    /\ lastIter = Iter("start", "none", "none", <<>>, now)
    /\ lastPass = NoPass
    /\ calls = [n |-> 0, recorded |-> clear_snapshot_history, last |-> [op |-> "none"],
                scores |-> [tk \in ScoredTickers |-> NotScored]]
    /\ _DEFICIENCY_CACHE = NoCache

\* calculate_composite_score(ticker, gap_pct, current_price, current_volume),
\* with the components it is built from
CompositeScoreCall ==
    /\ \E ticker \in ScoredTickers, gap_pct \in {5000, 20000}, current_volume \in {1000, 2000} :
          /\ ~calls.scores[ticker].scored
          /\ \E current_price \in {SNAPSHOT_HISTORY[ticker][Len(SNAPSHOT_HISTORY[ticker])][2]},
                heartbeat \in {has_heartbeat(SNAPSHOT_HISTORY, MARKET_OPEN_PRICES,
                                             ticker, now, 500, 1)} :
                calls' = [n |-> calls.n + 1, recorded |-> calls.recorded,
                          last |-> [op |-> "calculate_composite_score", ticker |-> ticker],
                          scores |-> [calls.scores EXCEPT ![ticker] =
                              [scored |-> TRUE, gap_pct |-> gap_pct, clock |-> now,
                               current_volume |-> current_volume,
                               intraday_delta |->
                                   calculate_intraday_delta(SNAPSHOT_HISTORY, ticker, now, 30),
                               volume_rate |->
                                   calculate_volume_rate(SNAPSHOT_HISTORY, ticker, now, 30),
                               active |-> heartbeat.active, reason |-> heartbeat.reason,
                               score |-> calculate_composite_score(SNAPSHOT_HISTORY,
                                             MARKET_OPEN_PRICES, ticker, now, gap_pct,
                                             current_price, current_volume)]]]
    /\ UNCHANGED <<cfg, now, pc, pick_made, today_pick, SNAPSHOT_HISTORY,
                   MARKET_OPEN_PRICES, ticks, faults, lastIter, lastPass,
                   _DEFICIENCY_CACHE>>

ScoringNext == CompositeScoreCall

SpecScoring == ScoringInit /\ [][ScoringNext]_vars

\* two scored states that agree on gap, clock, volume, volume rate and
\* heartbeat classification
C27_Agree(a, b) ==
    /\ a.scored /\ b.scored
    /\ a.gap_pct = b.gap_pct
    /\ a.clock = b.clock
    /\ a.current_volume = b.current_volume
    /\ a.volume_rate = b.volume_rate
    /\ a.active = b.active /\ a.reason = b.reason

\* C27: of two states that agree on gap, clock, volume, volume rate and
\* heartbeat classification, the one with the strictly larger 30-minute
\* intraday delta has the strictly larger composite score.
C27_CompositeMonotonicInDelta ==
    \A ta \in ScoredTickers, tb \in ScoredTickers :
        C27_Agree(calls.scores[ta], calls.scores[tb])
            /\ calls.scores[ta].intraday_delta > calls.scores[tb].intraday_delta
        => calls.scores[ta].score > calls.scores[tb].score

\* C27: two agreeing states with a live heartbeat and a positive volume rate,
\* one risen 10 percent and the other 5 percent over the window
C27_Witness ==
    /\ C27_Agree(calls.scores["AAA"], calls.scores["BBB"])
    /\ calls.scores["AAA"].active
    /\ calls.scores["AAA"].volume_rate > 0
    /\ calls.scores["AAA"].intraday_delta = 10000
    /\ calls.scores["BBB"].intraday_delta = 5000

----------------------------------------------------------------------------
(* run() followed to the close *)

PremarketTickToClose == PremarketTickWithin(MaxDayTicks, MaxVariedTicks)

MonitorIterToClose == MonitorIterWithin(MaxDayTicks, MaxVariedTicks)

NextToClose ==
    PremarketTickToClose \/ PremarketExit \/ WaitTick \/ WaitExit \/ MonitorIterToClose

\* an iteration of the premarket loop or of the monitoring loop is taken
LoopIteration ==
    /\ ticks < MaxDayTicks
    /\ \/ pc = "premarket" /\ within_premarket_window(cfg, now)
       \/ pc = "monitor"
    /\ ticks' = ticks + 1

\* run() is one thread: whenever its next statement can run it does, and each
\* time.sleep returns
SpecToClose ==
    /\ Init /\ [][NextToClose]_vars
    /\ WF_ticks(LoopIteration)
    /\ WF_vars(PremarketExit) /\ WF_vars(WaitTick) /\ WF_vars(WaitExit)

\* C28: under an advancing clock the premarket loop and the wait loop end and
\* the run ends; the monitoring loop exits at its first iteration whose New
\* York time is 16:00 or later, and only there, without a watchlist tick in
\* that iteration and without any step after it. (A run ended earlier by the
\* exception of an in-window pass has no such iteration.)
C28_RunTerminatesAtClose ==
    /\ <>(pc = "done" \/ pc = "crashed")
    /\ [](pc = "done" => /\ lastIter.kind = "close"
                         /\ Hour(lastIter.at) >= 16
                         /\ lastIter.watchlist = "none")
    /\ [][/\ pc = "premarket" => pc' \in {"premarket", "wait"}
          /\ pc = "wait" => pc' \in {"wait", "monitor"}
          /\ (pc = "monitor" /\ Hour(now) >= 16) => pc' = "done"
          /\ (pc = "monitor" /\ Hour(now) < 16) => pc' # "done"
          /\ pc # "done"]_vars

\* C28: a run started before the open has gone through the premarket loop,
\* the wait and a day of monitoring iterations and has ended at 16:00
C28_Witness ==
    /\ pc = "done"
    /\ ticks > 2 * MaxTicks
    /\ Hour(lastIter.at) = 16
    /\ pick_made

----------------------------------------------------------------------------
(* score_snapshots and compute_gap_pct called on values drawn from a bounded set *)

\* previous close and last price of a snapshot: the three snapshots of
\* tests/test_scoring.py, an unchanged price, a previous close of zero and a
\* negative one, and a missing last price
SnapPrices ==
    { <<1000, 1200>>, <<2000, 2100>>, <<3000, 2700>>, <<1000, 1000>>,
      <<0, 1200>>, <<0 - 500, 1200>>, <<1000, NoneVal>> }

\* the keys of the dicts handed to score_snapshots
SnapTickers == {"AAA", "BBB", "CCC"}

\* a dict of snapshots in its insertion order: every key once
SnapDicts ==
    UNION {{d \in [1..k -> [ticker : SnapTickers, prev_close : {p[1] : p \in SnapPrices},
                            last_price : {p[2] : p \in SnapPrices}]] :
              /\ \A i \in 1..k : <<d[i].prev_close, d[i].last_price>> \in SnapPrices
              /\ \A i \in 1..k, j \in 1..k : d[i].ticker = d[j].ticker => i = j}
           : k \in 0..Min(MaxSnaps, Cardinality(SnapTickers))}

GapInit ==
    /\ cfg = DefaultConfig
    /\ now = HM(9, 30)
    /\ pc = "library"
    /\ pick_made = FALSE
    /\ today_pick = <<>>
    /\ SNAPSHOT_HISTORY = clear_snapshot_history
    /\ MARKET_OPEN_PRICES = [tk \in Tickers |-> NoneVal]
    /\ ticks = 0
    /\ faults = 0
    /\ lastIter = Iter("start", "none", "none", <<>>, now)
    /\ lastPass = NoPass
    /\ \E snap_dict \in SnapDicts :
          calls = [NoCalls EXCEPT !.last = [op |-> "none", snap_dict |-> snap_dict]]
    /\ _DEFICIENCY_CACHE = NoCache

\* score_snapshots(snap_dict)
ScoreSnapshotsCall ==
    /\ calls.n = 0
    /\ calls' = [n |-> 1, recorded |-> calls.recorded,
                 last |-> [op |-> "score_snapshots", snap_dict |-> calls.last.snap_dict,
                           result |-> score_snapshots(calls.last.snap_dict)]]
    /\ UNCHANGED <<cfg, now, pc, pick_made, today_pick, SNAPSHOT_HISTORY,
                   MARKET_OPEN_PRICES, ticks, faults, lastIter, lastPass,
                   _DEFICIENCY_CACHE>>

\* compute_gap_pct(prev_close, ref_price) on the prices of one snapshot
ComputeGapPctCall ==
    /\ calls.n = 0
    /\ \E i \in 1..Len(calls.last.snap_dict) :
          /\ calls.last.snap_dict[i].last_price # NoneVal
          /\ calls' = [n |-> 1, recorded |-> calls.recorded,
                       last |-> [op |-> "compute_gap_pct",
                                 snap_dict |-> calls.last.snap_dict,
                                 prev_close |-> calls.last.snap_dict[i].prev_close,
                                 ref_price |-> calls.last.snap_dict[i].last_price,
                                 result |-> compute_gap_pct(
                                                calls.last.snap_dict[i].prev_close,
                                                calls.last.snap_dict[i].last_price)]]
    /\ UNCHANGED <<cfg, now, pc, pick_made, today_pick, SNAPSHOT_HISTORY,
                   MARKET_OPEN_PRICES, ticks, faults, lastIter, lastPass,
                   _DEFICIENCY_CACHE>>

GapNext == ScoreSnapshotsCall \/ ComputeGapPctCall

SpecGap == GapInit /\ [][GapNext]_vars

\* g is (price - prev_close) / prev_close * 100 to the nearest thousandth of
\* a percent, for a positive prev_close
C30_IsGapOf(g, prev_close, price) ==
    LET exact == (price - prev_close) * 100000
        off == g * prev_close - exact
    IN  2 * off <= prev_close /\ 2 * off >= 0 - prev_close

\* the gap the claim gives a snapshot: a missing price counts as 0
C29_GapIs(g, snap) ==
    IF snap.prev_close <= 0 THEN g = 0
    ELSE C30_IsGapOf(g, snap.prev_close,
                     IF snap.last_price = NoneVal THEN 0 ELSE snap.last_price)

C30_GapIsSignedPercentOfPrevClose ==
    calls.last.op = "compute_gap_pct"
        => IF calls.last.prev_close <= 0
              THEN calls.last.result = 0
              ELSE /\ C30_IsGapOf(calls.last.result, calls.last.prev_close,
                                  calls.last.ref_price)
                   /\ calls.last.ref_price > calls.last.prev_close => calls.last.result > 0
                   /\ calls.last.ref_price < calls.last.prev_close => calls.last.result < 0

\* C30: a price 10 percent below the previous close gives -10
C30_Witness ==
    /\ calls.last.op = "compute_gap_pct"
    /\ calls.last.prev_close = 3000
    /\ calls.last.ref_price = 2700
    /\ calls.last.result = 0 - 10000

----------------------------------------------------------------------------
(* run_open_selection_once called on a batch drawn from a bounded set *)

\* what fetch_snapshots may return to the pass: the batches of the run, and
\* two with a five-letter symbol ending in Q, once the largest gap of the
\* batch and once the only liquid symbol
PassBatches ==
    {Batches[i] : i \in 1..Len(Batches)}
    \cup { << Snap("AAA", 1200, 1000, 2000), Snap("DDDDQ", 300, 200, 5000) >>,
           << Snap("DDDDQ", 210, 200, 5000), Snap("CCC", 105, 150, 50) >> }

PassInit ==
    /\ cfg \in Configs
    /\ now \in {HM(9, 30), HM(9, 52), HM(10, 0)}
    /\ pc = "library"
    /\ pick_made = FALSE
    /\ today_pick = <<>>
    /\ SNAPSHOT_HISTORY = clear_snapshot_history
    /\ MARKET_OPEN_PRICES = [tk \in Tickers |-> NoneVal]
    /\ ticks = 0
    /\ faults = 0
    /\ lastIter = Iter("start", "none", "none", <<>>, now)
    /\ lastPass = NoPass
    /\ calls = NoCalls
    /\ _DEFICIENCY_CACHE = NoCache

\* run_open_selection_once(cfg, logger, force)
RunOpenSelectionCall ==
    /\ calls.n = 0
    /\ \E snaps \in PassBatches, force \in BOOLEAN, e \in PassInputs :
          /\ e.batch \in {0, 1}
          /\ \E pass \in {[RunOpenSelectionOn(cfg, snaps, SNAPSHOT_HISTORY,
                                              MARKET_OPEN_PRICES, now, force, e)
                           EXCEPT !.branch = IF force THEN "late" ELSE "window",
                                  !.input = e]} :
                /\ Executed(pass.outcome, e)
                /\ e.batch = 0 => snaps = Batches[1]
                /\ lastPass' = pass
                /\ today_pick' = IF pass.wrote THEN Append(today_pick, pass.row)
                                 ELSE today_pick
                /\ MARKET_OPEN_PRICES' = pass.opens
                /\ calls' = [n |-> 1, recorded |-> calls.recorded,
                             last |-> [op |-> "run_open_selection_once",
                                       snaps |-> snaps, force |-> force]]
    /\ UNCHANGED <<cfg, now, pc, pick_made, SNAPSHOT_HISTORY, ticks, faults,
                   lastIter, _DEFICIENCY_CACHE>>

PassNext == RunOpenSelectionCall

SpecPass == PassInit /\ [][PassNext]_vars

\* C31: the ticker written as final pick is a row that passed
\* apply_liquidity_filters on that pass and is accepted by
\* is_ticker_tradeable_fast, on the scored path and on the fallback path.
C31_FinalPickPassedEveryGate ==
    (calls.last.op = "run_open_selection_once" /\ lastPass.wrote)
        => /\ lastPass.row.final_pick = "TRUE"
           /\ lastPass.row.ticker \in lastPass.survivors
           /\ is_ticker_tradeable_fast(lastPass.row.ticker)

\* C32: the row appended on the non-fallback path is fully populated from the
\* winner: its date is the trading date, its gap_pct, rvol, atr_stretch,
\* premarket_high and open_price are the winner's enriched values, its score
\* is a number, positive for a winner that gapped up; no field is blank.
C32_ScoredRowFullyPopulated ==
    (lastPass.wrote /\ lastPass.path = "scored")
        => LET row == lastPass.row
               winner == SurvivorRow(row.ticker)
           IN  /\ row.date = winner.date /\ row.date # ""
               /\ row.gap_pct = winner.gap_pct
               /\ row.rvol = winner.rvol
               /\ row.atr_stretch = winner.atr_stretch
               /\ row.premarket_high = winner.premarket_high
               /\ row.open_price = winner.open_price
               /\ row.score # Blank
               /\ winner.last_price > winner.prev_close => row.score > 0

\* the verdict the rules give on the entries of CalledWindow against
\* CalledReference, with the default thresholds (0.5 percent, 1000 shares)
C33_Classified ==
    IF CalledReference <= 0 THEN "invalid_price"
    ELSE IF CalledFrozen THEN "price_frozen"
    ELSE IF CalledNewest < CalledReference THEN "downtrending_vs"
    ELSE IF (CalledNewest - CalledReference) * 1000 < 5 * CalledReference
            /\ CalledVolumeGrowth < 1
        THEN "insufficient_movement_vs"
    ELSE "active_vs"

\* C33: with at least 2 history entries of which fewer than 2 lie inside the
\* lookback window, has_heartbeat classifies on the last 2 raw entries when
\* the window is the 5-minute one, and returns (False,
\* "no_data_in_last_30min") when it is the 30-minute one.
C33_FallbackToLastTwoInTightWindow ==
    (/\ calls.last.op = "has_heartbeat"
     /\ Len(CalledHistory) >= 2
     /\ Len(CalledInWindow) < 2)
        => IF get_heartbeat_window_minutes(now) = 5
              THEN /\ calls.last.result.reason = C33_Classified
                   /\ calls.last.result.active = (C33_Classified = "active_vs")
              ELSE /\ ~calls.last.result.active
                   /\ calls.last.result.reason = "no_data_in"
                   /\ calls.last.result.ref = "last_30min"

\* C33: at 09:40 a ticker recorded 40 and 10 minutes ago only, risen since,
\* is judged on these two entries and found active
C33_Witness ==
    /\ calls.last.op = "has_heartbeat"
    /\ get_heartbeat_window_minutes(now) = 5
    /\ Len(CalledHistory) = 2
    /\ Len(CalledInWindow) = 0
    /\ CalledHistory[2][2] > CalledHistory[1][2]
    /\ calls.last.result.active

\* C34: has_heartbeat measures against the market-open anchor exactly when
\* the clock is at or after 09:30 and the ticker has an anchor (label
\* open_930), and against the oldest price of the filtered window in every
\* other case (label last_<N>min); the verdict and the label refer to that
\* same reference.
C34_ReferenceIsAnchorOnlyWhenOpen ==
    (/\ calls.last.op = "has_heartbeat"
     /\ calls.last.result.reason \notin {"first_scan_pass", "no_data_in"})
        => LET result == calls.last.result
               anchor == get_market_open_price(MARKET_OPEN_PRICES, calls.last.ticker)
               anchored == now >= HM(9, 30) /\ anchor # NoneVal
           IN  /\ result.reference_price = IF anchored THEN anchor ELSE CalledWindow[1][2]
               /\ result.ref = IF anchored THEN "open_930"
                               ELSE IF get_heartbeat_window_minutes(now) = 30
                                       THEN "last_30min" ELSE "last_5min"
               /\ result.reason = "downtrending_vs"
                     => CalledNewest < result.reference_price
               /\ result.reason \in {"insufficient_movement_vs", "active_vs"}
                     => CalledNewest >= result.reference_price

\* C34: before 09:30 a ticker that has an anchor above its newest price and
\* has risen inside the window is judged against the window and found active
C34_Witness ==
    /\ calls.last.op = "has_heartbeat"
    /\ now < HM(9, 30)
    /\ get_market_open_price(MARKET_OPEN_PRICES, calls.last.ticker) = 1100
    /\ Len(CalledInWindow) >= 2
    /\ CalledNewest > CalledWindow[1][2]
    /\ calls.last.result.ref = "last_30min"
    /\ calls.last.result.reference_price = CalledWindow[1][2]
    /\ calls.last.result.active

----------------------------------------------------------------------------
(* The watchlist scans on batches of seven symbols *)

\* what fetch_snapshots may return to a scan: seven symbols, six of them
\* tradeable, with prices that rise, fall and stand still between batches
WideBatches ==
    << << Snap("AAA", 1200, 1000, 2000), Snap("BBB", 2100, 2000, 600),
          Snap("CCC", 240, 150, 600), Snap("DDDDQ", 300, 200, 5000),
          Snap("EEE", 550, 500, 800), Snap("GGG", 880, 800, 1000),
          Snap("HHH", 330, 300, 900) >>,
       << Snap("AAA", 1250, 1000, 2100), Snap("BBB", 2000, 2000, 700),
          Snap("CCC", 240, 150, 600), Snap("DDDDQ", 320, 200, 5100),
          Snap("EEE", 560, 500, 900), Snap("GGG", 900, 800, 1100),
          Snap("HHH", 340, 300, 1000) >>,
       << Snap("AAA", 1150, 1000, 2200), Snap("BBB", 2200, 2000, 800),
          Snap("CCC", 260, 150, 700), Snap("DDDDQ", 280, 200, 5200),
          Snap("EEE", 540, 500, 1000), Snap("GGG", 890, 800, 1200),
          Snap("HHH", 330, 300, 1000) >> >>

WatchlistInit ==
    /\ cfg = DefaultConfig
    /\ now \in {HM(8, 0), HM(9, 0), HM(9, 20), HM(9, 40), HM(12, 30)}
    /\ pc = "library"
    /\ pick_made = FALSE
    /\ today_pick = <<>>
    /\ SNAPSHOT_HISTORY = clear_snapshot_history
    /\ MARKET_OPEN_PRICES = [tk \in Tickers |-> NoneVal]
    /\ ticks = 0
    /\ faults = 0
    /\ lastIter = Iter("start", "none", "none", <<>>, now)
    /\ lastPass = NoPass
    /\ calls = NoCalls
    /\ _DEFICIENCY_CACHE = NoCache

\* run_once(cfg, logger) without debug, taking d seconds, then the sleep of
\* one cadence read from the clock after the tick
RunOnceScan ==
    /\ calls.n < MaxScans
    /\ \E b \in 1..Len(WideBatches) :
          \E r \in {run_once(cfg, WideBatches[b], SNAPSHOT_HISTORY,
                             MARKET_OPEN_PRICES, now)} :
             /\ SNAPSHOT_HISTORY' = r.hist
             /\ MARKET_OPEN_PRICES' = r.opens
             /\ lastIter' = Iter("premarket", "none",
                                 IF now < HM(9, 30) \/ (Hour(now) >= 16 /\ Hour(now) < 20)
                                    THEN "logged" ELSE "none",
                                 r.top5, now)
             /\ calls' = [n |-> calls.n + 1, recorded |-> calls.recorded,
                          last |-> [op |-> "run_once", batch |-> b,
                                   prev |-> lastIter.at]]
    /\ \E d \in 0..MaxSkew :
          now' = now + d + get_scan_cadence_minutes(now + d) * 60
    /\ UNCHANGED <<cfg, pc, pick_made, today_pick, ticks, faults, lastPass,
                   _DEFICIENCY_CACHE>>

\* the watchlist block of one monitoring iteration, taking d seconds, then
\* the sleep of one cadence read from the clock after the block
MonitorWatchlistScan ==
    /\ calls.n < MaxScans
    /\ now >= HM(9, 15)
    /\ \E b \in 1..Len(WideBatches) :
          \E scan \in {MonitorScan(cfg, WideBatches[b], SNAPSHOT_HISTORY,
                                   MARKET_OPEN_PRICES, now)} :
             /\ SNAPSHOT_HISTORY' = scan.hist
             /\ MARKET_OPEN_PRICES' = scan.opens
             /\ lastIter' = Iter("monitor", "none", "logged", scan.top5, now)
             /\ calls' = [n |-> calls.n + 1, recorded |-> calls.recorded,
                          last |-> [op |-> "monitor_scan", batch |-> b,
                                   prev |-> lastIter.at]]
    /\ \E d \in 0..MaxSkew :
          now' = now + d + get_scan_cadence_minutes(now + d) * 60
    /\ UNCHANGED <<cfg, pc, pick_made, today_pick, ticks, faults, lastPass,
                   _DEFICIENCY_CACHE>>

WatchlistNext == RunOnceScan \/ MonitorWatchlistScan

SpecWatchlist == WatchlistInit /\ [][WatchlistNext]_vars

\* C35: on every tick that logs a watchlist, the top 5 holds at most 5
\* tickers, each once, in descending composite score; every ticker in it is
\* accepted by is_ticker_tradeable_fast, has its snapshot of this tick as the
\* newest entry of its history, and is classified active by has_heartbeat on
\* that history at the time of the tick.
C35_Top5ActiveSortedAndRecorded ==
    lastIter.watchlist = "logged"
        => LET top5 == lastIter.top5
           IN  /\ Len(top5) <= 5
               /\ \A i \in 1..Len(top5), j \in 1..Len(top5) :
                     /\ i < j => top5[i].score >= top5[j].score
                     /\ top5[i].ticker = top5[j].ticker => i = j
               /\ \A i \in 1..Len(top5) :
                     LET history == get_snapshot_history(SNAPSHOT_HISTORY, top5[i].ticker)
                     IN  /\ is_ticker_tradeable_fast(top5[i].ticker)
                         /\ Len(history) >= 1
                         /\ history[Len(history)][1] >= lastIter.at
                         /\ has_heartbeat(SNAPSHOT_HISTORY, MARKET_OPEN_PRICES,
                                          top5[i].ticker, history[Len(history)][1],
                                          500, 1).active

\* C35: a scan in which six tradeable tickers were recorded and found
\* active, of which the watchlist holds five
C35_Witness ==
    /\ lastIter.watchlist = "logged"
    /\ Len(lastIter.top5) = 5
    /\ \E tk \in Tickers :
          LET history == get_snapshot_history(SNAPSHOT_HISTORY, tk)
          IN  /\ is_ticker_tradeable_fast(tk)
              /\ Len(history) >= 1
              /\ history[Len(history)][1] = lastIter.at
              /\ has_heartbeat(SNAPSHOT_HISTORY, MARKET_OPEN_PRICES, tk,
                               lastIter.at, 500, 1).active
              /\ \A i \in 1..Len(lastIter.top5) : lastIter.top5[i].ticker # tk

\* C36: with debug off, pick_made is true only if exactly one row with
\* final_pick=TRUE has been appended for the day; pick_made is not set by a
\* selection pass that wrote nothing.
C36_PickMadeOnlyWithOneFinalRow ==
    ~cfg.debug
        => /\ pick_made => Cardinality(FinalPickRows) = 1
           /\ (lastPass.outcome # "not_called" /\ ~lastPass.wrote) => ~pick_made

\* C37: whenever run() finds the selection window active and calls the pass
\* without force, the pass gets past its own window check; it is never
\* skipped as 'window not active' because the clock advanced between the two
\* reads.
C37_WindowDecisionAndPassAgree ==
    lastPass.branch = "window" => lastPass.outcome # "window_not_active"

\* C38: no selection pass runs and no final-pick row is appended at or after
\* 16:00; a run started after the close ends without a pass and without a row.
C38_NoPickAfterClose ==
    /\ lastPass.outcome # "not_called" => Hour(lastPass.at) < 16
    /\ \A i \in 1..Len(today_pick) : today_pick[i].time < 16 * 60
    /\ (pc = "done" /\ ticks = 1 /\ Hour(lastIter.at) >= 16)
          => lastPass.outcome = "not_called" /\ today_pick = <<>>

\* C39: a run started before the premarket start time still scans the
\* premarket: while the premarket window is open the run is in its premarket
\* loop, executing run_once at the session cadence, and leaves that loop only
\* when the window has closed.
C39_PremarketScannedOnceWindowOpens ==
    within_premarket_window(cfg, now) => pc = "premarket"

\* C40: a ticker recorded on two consecutive ticks of one run is judged by
\* has_heartbeat on the later tick on its price and volume movement; the
\* verdict is never no_data_in_last_<N>min, at any time of day.
C40_ConsecutiveTicksNeverLackData ==
    calls.n >= 2
        => \A tk \in Tickers :
              LET history == get_snapshot_history(SNAPSHOT_HISTORY, tk)
              IN  (/\ Len(history) >= 2
                   /\ history[Len(history)][1] = lastIter.at
                   /\ history[Len(history) - 1][1] = calls.last.prev)
                     => has_heartbeat(SNAPSHOT_HISTORY, MARKET_OPEN_PRICES, tk,
                                      lastIter.at, 500, 1).reason # "no_data_in"

====
